---------------------------- MODULE Spec2Model ----------------------------
(***************************************************************************)
(* The conversation turn engine of crates/agent2/src/agent.rs.             *)
(*                                                                         *)
(* Agent::send appends the user message and spawns one orchestration task  *)
(* on the foreground executor (single-threaded, cooperative).  The task    *)
(* suspends only while opening the model stream, while awaiting the next   *)
(* stream event and while awaiting join_all of the round's tool tasks; the *)
(* code between two suspension points is one action.                       *)
(***************************************************************************)
EXTENDS Integers, Sequences, FiniteSets, TLC

\* ------------------------------------------------------------------ bounds
MaxInputs == 3      \* inputs explored: send() calls plus events delivered by the model
MaxPrompts == 2     \* system prompts of a configured agent
MaxImpls == 2       \* implementations of one tool name

Turns == 1..MaxInputs
NoTurn == 0

\* ------------------------------------------------------------- vocabulary
ToolNames == {"echo"}                    \* names a ToolUse event may carry
Inputs == {"valid", "invalid"}           \* complete JSON: whether it deserializes into T::Input
PartialInput == "partial"                \* the JSON of a tool use still streaming
StopReasons == {"EndTurn", "ToolUse", "MaxTokens"}
UserContent == <<"hi">>
OpaqueTool == "opaque"                   \* a tool whose input schema does not serialize
RegistryNames == ToolNames \cup {OpaqueTool}    \* names a registered tool may have

\* a tool: the name it answers to, and which of the implementations of that name
\* it is
Tool(name, impl) == [name |-> name, impl |-> impl]
Tools == {Tool(name, impl) : name \in RegistryNames, impl \in 1..MaxImpls}

\* the tool a session registers under a name when it has one implementation of it
SessionTool(name) == Tool(name, 1)

\* BTreeMap::new
NoTools == [name \in {} |-> SessionTool(name)]

\* a system prompt: whether Prompt::render succeeds, and the text it renders
Prompts == {[renders |-> TRUE, text |-> <<"a">>],
            [renders |-> TRUE, text |-> <<"b">>],
            [renders |-> FALSE, text |-> <<>>]}
PromptLists == UNION {[1..n -> Prompts] : n \in 0..MaxPrompts}

VARIABLES
    messages,       \* Agent.messages
    tools,          \* Agent.tools: the tool registered under each name
    system_prompts, \* Agent.system_prompts
    running_turn,   \* Agent.running_turn: the turn whose Task is held, NoTurn for None
    sends,          \* number of send() calls so far
    pc,             \* pc[t]: where turn t's orchestration task is suspended
    tool_uses,      \* tool_uses[t]: the round's Vec<Task<LanguageModelToolResult>>
    request,        \* request[t]: the request last built by turn t
    nreq,           \* nreq[t]: requests built by turn t
    events_rx,      \* events_rx[t]: items put on the channel returned by send t
    received,       \* received[t]: Ok events the model delivered to turn t, one sequence per round
    completion_order, \* tool_use ids of the tool tasks that ran to their end, in that order
    crashed         \* a handler panicked

\* EditAgent::resolve_location (crates/assistant_tools/src/edit_agent.rs) and the
\* edit applied with the range it returns
VARIABLES
    buffer,           \* the bytes of the BufferSnapshot
    search_query,     \* the bytes of edit.old_text
    edit_new_text,    \* edit.new_text
    matrix,           \* the SearchMatrix
    best_buffer_end,
    query_ix,
    buffer_ix,
    location,         \* the range returned, as offsets into the snapshot
    edited_text,      \* buffer.text(): the text of the live buffer
    rpc               \* where resolve_location stands

agent_vars == <<messages, tools, system_prompts, running_turn, sends, pc, tool_uses,
                request, nreq, events_rx, received, completion_order, crashed>>

resolver_vars == <<buffer, search_query, edit_new_text, matrix, best_buffer_end, query_ix,
                   buffer_ix, location, edited_text, rpc>>

\* EditAgent::interpret (crates/assistant_tools/src/edit_agent.rs): the stream of
\* chunks it consumes and the stream of items it returns
VARIABLES
    chunks,           \* the chunks the closure of flat_map has been called with
    parser,           \* the EditParser of the call: the number of chunks pushed into it
    edits,            \* what is left to map of the SmallVec parser.push returned
    output            \* the items the returned stream has yielded

stream_vars == <<chunks, parser, edits, output>>

vars == <<agent_vars, resolver_vars, stream_vars>>

\* ---------------------------------------------------------------- helpers
Last(s) == s[Len(s)]

RECURSIVE Flatten(_)
Flatten(ss) == IF ss = <<>> THEN <<>> ELSE Head(ss) \o Flatten(Tail(ss))

Map(s, F(_)) == [i \in 1..Len(s) |-> F(s[i])]

\* ------------------------------------------------------------------- data
TextPart(text) == [type |-> "Text", text |-> text]

ToolUseRec(id, name, complete, input) ==
    [id |-> id, name |-> name, is_input_complete |-> complete, input |-> input]

ToolUsePart(tool_use) == [type |-> "ToolUse", tool_use |-> tool_use]

ToolResult(id, name, is_error, content) ==
    [tool_use_id |-> id, tool_name |-> name, is_error |-> is_error, content |-> content]

ToolResultPart(result) == [type |-> "ToolResult", result |-> result]

AgentMessage(role, content) == [role |-> role, content |-> content]

OkItem(event) == [ok |-> TRUE, event |-> event]
ErrItem(error) == [ok |-> FALSE, error |-> error]


StreamError == <<"stream error">>
OpenError == <<"stream_completion failed">>
Outputs == {<<"output">>}
Failures == {<<"tool failed">>}
ParseFailure == <<"invalid input">>

RunOk(value) == [ok |-> TRUE, value |-> value]
RunErr(value) == [ok |-> FALSE, value |-> value]
RunResults == {RunOk(v) : v \in Outputs} \cup {RunErr(v) : v \in Failures}

\* ------------------------------------------------------ functions of Agent
\* prompt.render(..).log_err(): Some(text) when the prompt renders
Rendered(prompt) == prompt.renders

\* a build_system_message that returns the message whatever its content
build_system_message_unchecked ==
    <<AgentMessage("System",
                   Map(SelectSeq(system_prompts, Rendered), LAMBDA p : TextPart(p.text)))>>

build_system_message ==
    LET content == Map(SelectSeq(system_prompts, Rendered), LAMBDA p : TextPart(p.text))
    IN  IF content # <<>> THEN <<AgentMessage("System", content)>> ELSE <<>>

last_assistant_message(msgs) ==
    IF msgs = <<>> \/ Last(msgs).role # "Assistant"
    THEN Append(msgs, AgentMessage("Assistant", <<>>))
    ELSE msgs

\* msgs with its last message's content replaced
WithLastContent(msgs, content) ==
    [msgs EXCEPT ![Len(msgs)] = [@ EXCEPT !.content = content]]

\* a handler that puts the new text in front of the trailing text
handle_text_event_prepending(msgs, new_text) ==
    LET ms == last_assistant_message(msgs)
        content == Last(ms).content
    IN  IF content # <<>> /\ Last(content).type = "Text"
        THEN WithLastContent(ms,
                 [content EXCEPT ![Len(content)] = TextPart(new_text \o @.text)])
        ELSE WithLastContent(ms, Append(content, TextPart(new_text)))

handle_text_event(msgs, new_text) ==
    LET ms == last_assistant_message(msgs)
        content == Last(ms).content
    IN  IF content # <<>> /\ Last(content).type = "Text"
        THEN WithLastContent(ms,
                 [content EXCEPT ![Len(content)] = TextPart(@.text \o new_text)])
        ELSE WithLastContent(ms, Append(content, TextPart(new_text)))

\* a handle_tool_use_event that loses the tool-use part
PushToolUseSkipped(msgs, tool_use) == last_assistant_message(msgs)

\* handle_tool_use_event, lines 220-222: the part pushed on the history
PushToolUse(msgs, tool_use) ==
    LET ms == last_assistant_message(msgs)
    IN  WithLastContent(ms, Append(Last(ms).content, ToolUsePart(tool_use)))

\* ErasedTool::run: the pending Task<Result<String>>; <<>> while it runs
ErasedRun(input) ==
    IF input = "valid" THEN <<>> ELSE <<RunErr(ParseFailure)>>

\* an async block that reports a failed run as a success
WrapRunResultAsSuccess(tool_use_id, tool_name, res) ==
    ToolResult(tool_use_id, tool_name, FALSE, res.value)

\* the async block spawned for a registered tool: its output once the run resolved
WrapRunResult(tool_use_id, tool_name, res) ==
    IF res.ok
    THEN ToolResult(tool_use_id, tool_name, FALSE, res.value)
    ELSE ToolResult(tool_use_id, tool_name, TRUE, res.value)

NoToolNamed(name) == <<"No tool named ", name, " exists">>

\* a lookup miss that is not tagged as an error
SpawnToolTaskUntagged(registry, tool_use) ==
    IF tool_use.name \in registry
    THEN [tool_use_id |-> tool_use.id, tool_name |-> tool_use.name,
          run |-> ErasedRun(tool_use.input), output |-> <<>>]
    ELSE [tool_use_id |-> tool_use.id, tool_name |-> tool_use.name,
          run |-> <<>>,
          output |-> <<ToolResult(tool_use.id, tool_use.name, FALSE,
                                  NoToolNamed(tool_use.name))>>]

\* handle_tool_use_event, lines 229-255: the task returned for a complete tool use.
\* run: the tool's pending result (<<>>: none or still running);
\* output: the task's LanguageModelToolResult (<<>>: not ready)
SpawnToolTask(registry, tool_use) ==
    IF tool_use.name \in registry
    THEN [tool_use_id |-> tool_use.id, tool_name |-> tool_use.name,
          run |-> ErasedRun(tool_use.input), output |-> <<>>]
    ELSE [tool_use_id |-> tool_use.id, tool_name |-> tool_use.name,
          run |-> <<>>,
          output |-> <<ToolResult(tool_use.id, tool_use.name, TRUE,
                                  NoToolNamed(tool_use.name))>>]

TaskReady(task) == task.output # <<>>

\* the place of a task in completion_order, 0 for a task that never ran
CompletionRank(task) ==
    IF \E k \in 1..Len(completion_order) : completion_order[k] = task.tool_use_id
    THEN CHOOSE k \in 1..Len(completion_order) : completion_order[k] = task.tool_use_id
    ELSE 0

\* a join that collects the outputs as the tasks complete
JoinAsCompleted(tasks) ==
    Flatten(Map(SortSeq(tasks, LAMBDA a, b : CompletionRank(a) < CompletionRank(b)),
                LAMBDA task : task.output))

\* join_all's output: the outputs of the tasks, in the order of the tasks
JoinAll(tasks) == Flatten(Map(tasks, LAMBDA task : task.output))

\* a join that reports the first result only
ToolResultsMessageOfFirst(tasks) ==
    AgentMessage("User", Map(SubSeq(JoinAll(tasks), 1, 1), ToolResultPart))

\* lines 131-134: tool_results.into_iter().map(Into::into).collect()
ToolResultsMessage(tasks) ==
    AgentMessage("User", Map(JoinAll(tasks), ToolResultPart))

build_request_messages(msgs) ==
    Map(msgs, LAMBDA m : [role |-> m.role, content |-> m.content, cache |-> FALSE])

\* ErasedTool::input_schema: whether serde_json::to_value(schema) is Ok
SchemaSerializes(name) == name # OpaqueTool

\* a request that lists every registered tool
build_completion_request_unfiltered(msgs, registry) ==
    [messages |-> build_request_messages(msgs), tools |-> registry]

build_completion_request(msgs, registry) ==
    [messages |-> build_request_messages(msgs),
     tools |-> {name \in registry : SchemaSerializes(name)}]

NoRequest == [messages |-> <<>>, tools |-> {}]

\* ------------------------------------------------------------ model events
TextEvent(text) == [type |-> "Text", text |-> text]
ThinkingEvent == [type |-> "Thinking"]
UsageUpdateEvent == [type |-> "UsageUpdate"]
StartMessageEvent(role) == [type |-> "StartMessage", role |-> role]
StopEvent(reason) == [type |-> "Stop", reason |-> reason]
ToolUseEvent(tool_use) == [type |-> "ToolUse", tool_use |-> tool_use]

IsCompleteToolUse(event) ==
    event.type = "ToolUse" /\ event.tool_use.is_input_complete

AllReceived == Flatten([t \in Turns |-> Flatten(received[t])])

EventsDelivered == Len(AllReceived)
InputsUsed == sends + EventsDelivered

\* The provider numbers its tool uses: the deltas of one tool use share an id, and
\* the next id is taken once a tool use has been delivered complete.
NextToolUseId == 1 + Len(SelectSeq(AllReceived, IsCompleteToolUse))

\* Text deltas are numbered by their place in the model's output, so that every
\* delta is told from every other.
NextDelta == 1 + Len(AllReceived)

StartRoles == {"Assistant"}

Events ==
    {TextEvent(<<NextDelta>>)}
    \cup {ThinkingEvent, UsageUpdateEvent}
    \cup {StartMessageEvent(r) : r \in StartRoles}
    \cup {StopEvent(r) : r \in StopReasons}
    \cup {ToolUseEvent(ToolUseRec(NextToolUseId, n, FALSE, PartialInput)) :
            n \in ToolNames}
    \cup {ToolUseEvent(ToolUseRec(NextToolUseId, n, TRUE, i)) :
            n \in ToolNames, i \in Inputs}

\* --------------------------------------------------------------- Agent::new
AgentNew ==
    /\ messages = <<>>
    /\ tools = NoTools
    /\ system_prompts = <<>>
    /\ running_turn = NoTurn
    /\ sends = 0
    /\ pc = [t \in Turns |-> "unborn"]
    /\ tool_uses = [t \in Turns |-> <<>>]
    /\ request = [t \in Turns |-> NoRequest]
    /\ nreq = [t \in Turns |-> 0]
    /\ events_rx = [t \in Turns |-> <<>>]
    /\ received = [t \in Turns |-> <<>>]
    /\ completion_order = <<>>
    /\ crashed = FALSE

\* no edit is being resolved
NoResolution ==
    /\ buffer = <<>>
    /\ search_query = <<>>
    /\ edit_new_text = <<>>
    /\ matrix = <<>>
    /\ best_buffer_end = 0
    /\ query_ix = 0
    /\ buffer_ix = 0
    /\ location = <<>>
    /\ edited_text = <<>>
    /\ rpc = "idle"

\* EditParser::new()
EditParserNew == 0

\* interpret() has not been called
NoStream ==
    /\ chunks = <<>>
    /\ parser = EditParserNew
    /\ edits = <<>>
    /\ output = <<>>

Init == AgentNew /\ NoResolution /\ NoStream

\* ------------------------------------------------------------- the registry
\* an insertion that keeps the tool already held under the name
InsertedIfVacant(map, tool) ==
    [name \in DOMAIN map \cup {tool.name} |->
        IF name \in DOMAIN map THEN map[name] ELSE tool]

\* BTreeMap::insert(tool.name(), tool.erase()): the map with the tool under its name
Inserted(map, tool) ==
    [name \in DOMAIN map \cup {tool.name} |->
        IF name = tool.name THEN tool ELSE map[name]]

add_tool(tool) ==
    /\ ~crashed
    /\ tools' = Inserted(tools, tool)
    /\ UNCHANGED <<resolver_vars, stream_vars, system_prompts, messages, running_turn, sends, pc, tool_uses, request, nreq,
                   events_rx, received, completion_order, crashed>>

\* BTreeMap::remove: the map without the key, and the value it held, if any
Removed(map, key) ==
    [map |-> [name \in DOMAIN map \ {key} |-> map[name]],
     value |-> IF key \in DOMAIN map THEN <<map[key]>> ELSE <<>>]

\* what remove_tool(name) returns: self.tools.remove(name).is_some()
remove_tool_returns(name) == Removed(tools, name).value # <<>>

remove_tool(name) ==
    /\ ~crashed
    /\ tools' = Removed(tools, name).map
    /\ UNCHANGED <<resolver_vars, stream_vars, system_prompts, messages, running_turn, sends, pc, tool_uses, request, nreq,
                   events_rx, received, completion_order, crashed>>

\* ------------------------------------------------------------------- send
\* Dropping a gpui Task cancels it: the future is never polled again and the
\* tool Tasks it holds are dropped with it.  A task that ended stays ended.
DropTask(p, old) ==
    IF old = NoTurn \/ p[old] = "done" THEN p ELSE [p EXCEPT ![old] = "dropped"]

\* a send that detaches its task instead of holding it: nothing is dropped
StoreDetached(p, old, new) == [p EXCEPT ![new] = "requesting"]

\* self.running_turn = Some(cx.spawn(..)): the new task is stored over the old one
StoreRunningTurn(p, old, new) ==
    [DropTask(p, old) EXCEPT ![new] = "requesting"]

Send ==
    /\ ~crashed
    /\ InputsUsed < MaxInputs
    /\ LET t == sends + 1
       IN  /\ messages' = (messages \o build_system_message)
                            \o <<AgentMessage("User", <<TextPart(UserContent)>>)>>
           /\ pc' = StoreRunningTurn(pc, running_turn, t)
           /\ tool_uses' = [u \in Turns |->
                              IF pc'[u] = "dropped" THEN <<>> ELSE tool_uses[u]]
           /\ running_turn' = t
           /\ sends' = t
    /\ UNCHANGED <<resolver_vars, stream_vars, system_prompts, tools, request, nreq, events_rx, received, completion_order, crashed>>

\* --------------------------------------------------- the orchestration task

\* loop head, lines 89-90, up to the await of stream_completion
BuildRequest(t) ==
    /\ ~crashed
    /\ pc[t] = "requesting"
    /\ request' = [request EXCEPT ![t] = build_completion_request(messages, DOMAIN tools)]
    /\ nreq' = [nreq EXCEPT ![t] = @ + 1]
    /\ pc' = [pc EXCEPT ![t] = "opening"]
    /\ UNCHANGED <<resolver_vars, stream_vars, system_prompts, messages, tools, running_turn, sends, tool_uses, events_rx,
                   received, completion_order, crashed>>

\* line 98 resolves to a stream; line 99
OpenStream(t) ==
    /\ ~crashed
    /\ pc[t] = "opening"
    /\ pc' = [pc EXCEPT ![t] = "streaming"]
    /\ tool_uses' = [tool_uses EXCEPT ![t] = <<>>]
    /\ received' = [received EXCEPT ![t] = Append(@, <<>>)]
    /\ UNCHANGED <<resolver_vars, stream_vars, system_prompts, messages, tools, running_turn, sends, request, nreq, events_rx,
                   completion_order, crashed>>

\* a loop that reports the failure of line 98 and builds the request again
OpenStreamFailsAndRetries(t) ==
    /\ ~crashed
    /\ pc[t] = "opening"
    /\ events_rx' = [events_rx EXCEPT ![t] = Append(@, ErrItem(OpenError))]
    /\ pc' = [pc EXCEPT ![t] = "requesting"]
    /\ UNCHANGED <<resolver_vars, stream_vars, system_prompts, messages, tools, running_turn, sends, tool_uses, request, nreq,
                   received, completion_order, crashed>>

\* line 98 resolves to an error: `?` leaves the loop, lines 143-145 report it
OpenStreamFails(t) ==
    /\ ~crashed
    /\ pc[t] = "opening"
    /\ events_rx' = [events_rx EXCEPT ![t] = Append(@, ErrItem(OpenError))]
    /\ pc' = [pc EXCEPT ![t] = "done"]
    /\ UNCHANGED <<resolver_vars, stream_vars, system_prompts, messages, tools, running_turn, sends, tool_uses, request, nreq,
                   received, completion_order, crashed>>

\* handle_stop_event: TRUE when the reason is handled, FALSE when it hits todo!()
handle_stop_event(stop_reason) == stop_reason \in {"EndTurn", "ToolUse"}

Panics(event) == event.type = "Stop" /\ ~handle_stop_event(event.reason)

\* a handler that forwards the event after the match instead of before it
ForwardAfterMatch(channel, event) ==
    IF Panics(event) THEN channel ELSE Append(channel, OkItem(event))

\* line 174: the event is sent before the match
Forward(channel, event) == Append(channel, OkItem(event))

\* a match whose StartMessage overwrites the last message of the history
HistoryAfterRestarting(msgs, event) ==
    CASE event.type = "Text" -> handle_text_event(msgs, event.text)
      [] IsCompleteToolUse(event) -> PushToolUse(msgs, event.tool_use)
      [] event.type = "StartMessage" ->
            IF msgs = <<>>
            THEN <<AgentMessage(event.role, <<>>)>>
            ELSE [msgs EXCEPT ![Len(msgs)] = AgentMessage(event.role, <<>>)]
      [] OTHER -> msgs

\* the match of handle_response_event: the history after the event
HistoryAfter(msgs, event) ==
    CASE event.type = "Text" -> handle_text_event(msgs, event.text)
      [] IsCompleteToolUse(event) -> PushToolUse(msgs, event.tool_use)
      [] event.type = "StartMessage" -> Append(msgs, AgentMessage(event.role, <<>>))
      [] OTHER -> msgs

\* a handler that hands every ToolUse event to handle_tool_use_event's lookup
TaskForAnyToolUse(registry, event) ==
    IF event.type = "ToolUse" THEN <<SpawnToolTask(registry, event.tool_use)>> ELSE <<>>

\* a match that starts no task while the stream is being read
TaskForDeferred(registry, event) == <<>>

\* the match of handle_response_event: the Option<Task> it returns, as a sequence
TaskFor(registry, event) ==
    IF IsCompleteToolUse(event) THEN <<SpawnToolTask(registry, event.tool_use)>> ELSE <<>>

\* a loop that takes a handled Stop for the end of the stream
StreamEventEndingAtStop(t, event) ==
    /\ ~crashed
    /\ pc[t] = "streaming"
    /\ InputsUsed < MaxInputs
    /\ received' = [received EXCEPT ![t] = [@ EXCEPT ![Len(@)] = Append(@, event)]]
    /\ events_rx' = [events_rx EXCEPT ![t] = Forward(@, event)]
    /\ crashed' = Panics(event)
    /\ messages' = HistoryAfter(messages, event)
    /\ tool_uses' = [tool_uses EXCEPT ![t] = @ \o TaskFor(DOMAIN tools, event)]
    /\ pc' = IF event.type = "Stop" /\ ~Panics(event)
             THEN [pc EXCEPT ![t] = IF tool_uses[t] = <<>> THEN "done" ELSE "awaiting"]
             ELSE pc
    /\ UNCHANGED <<resolver_vars, stream_vars, system_prompts, tools, running_turn, sends, request, nreq, completion_order>>

\* lines 100-112: the stream yields Ok(event)
StreamEvent(t, event) ==
    /\ ~crashed
    /\ pc[t] = "streaming"
    /\ InputsUsed < MaxInputs
    /\ received' = [received EXCEPT ![t] = [@ EXCEPT ![Len(@)] = Append(@, event)]]
    /\ events_rx' = [events_rx EXCEPT ![t] = Forward(@, event)]
    /\ crashed' = Panics(event)
    /\ messages' = HistoryAfter(messages, event)
    /\ tool_uses' = [tool_uses EXCEPT ![t] = @ \o TaskFor(DOMAIN tools, event)]
    /\ UNCHANGED <<resolver_vars, stream_vars, system_prompts, tools, running_turn, sends, pc, request, nreq, completion_order>>

\* a loop that joins without looking at tool_uses.is_empty()
AfterStreamAlwaysJoins(t) == "awaiting"

\* lines 120-128: after the while loop
AfterStream(t) ==
    IF tool_uses[t] = <<>> THEN "done" ELSE "awaiting"

\* lines 113-116: the stream yields Err(error)
StreamFails(t) ==
    /\ ~crashed
    /\ pc[t] = "streaming"
    /\ events_rx' = [events_rx EXCEPT ![t] = Append(@, ErrItem(StreamError))]
    /\ pc' = [pc EXCEPT ![t] = AfterStream(t)]
    /\ UNCHANGED <<resolver_vars, stream_vars, system_prompts, messages, tools, running_turn, sends, tool_uses, request, nreq,
                   received, completion_order, crashed>>

\* line 100: the stream yields None
StreamEnds(t) ==
    /\ ~crashed
    /\ pc[t] = "streaming"
    /\ pc' = [pc EXCEPT ![t] = AfterStream(t)]
    /\ UNCHANGED <<resolver_vars, stream_vars, system_prompts, messages, tools, running_turn, sends, tool_uses, request, nreq,
                   events_rx, received, completion_order, crashed>>

\* a tool task of the round runs to its end: the tool's run resolves (to res, unless
\* it was ready from the start) and the async block of lines 232-247 wraps it
ToolCompletes(t, i, res) ==
    /\ ~crashed
    /\ pc[t] \in {"streaming", "awaiting"}
    /\ i \in 1..Len(tool_uses[t])
    /\ ~TaskReady(tool_uses[t][i])
    /\ LET task == tool_uses[t][i]
       IN  /\ IF task.run = <<>> THEN res \in RunResults ELSE res = task.run[1]
           /\ tool_uses' = [tool_uses EXCEPT ![t][i] =
                  [task EXCEPT !.run = <<res>>,
                               !.output = <<WrapRunResult(task.tool_use_id,
                                                          task.tool_name, res)>>]]
           /\ completion_order' = Append(completion_order, task.tool_use_id)
    /\ UNCHANGED <<resolver_vars, stream_vars, system_prompts, messages, tools, running_turn, sends, pc, request, nreq,
                   events_rx, received, crashed>>

\* a join that resolves with the first task that is ready
JoinFirstReady(tasks) == \E i \in 1..Len(tasks) : TaskReady(tasks[i])

\* join_all resolves once every task of the round is ready
JoinReady(tasks) == \A i \in 1..Len(tasks) : TaskReady(tasks[i])

\* lines 128-136
JoinToolResults(t) ==
    /\ ~crashed
    /\ pc[t] = "awaiting"
    /\ JoinReady(tool_uses[t])
    /\ messages' = Append(messages, ToolResultsMessage(tool_uses[t]))
    /\ tool_uses' = [tool_uses EXCEPT ![t] = <<>>]
    /\ pc' = [pc EXCEPT ![t] = "requesting"]
    /\ UNCHANGED <<resolver_vars, stream_vars, system_prompts, tools, running_turn, sends, request, nreq, events_rx, received,
                   completion_order, crashed>>

Next ==
    \/ Send
    \/ \E name \in ToolNames : add_tool(SessionTool(name))
    \/ \E name \in ToolNames : remove_tool(name)
    \/ \E t \in Turns : BuildRequest(t)
    \/ \E t \in Turns : OpenStream(t)
    \/ \E t \in Turns : OpenStreamFails(t)
    \/ \E t \in Turns : \E event \in Events : StreamEvent(t, event)
    \/ \E t \in Turns : StreamFails(t)
    \/ \E t \in Turns : StreamEnds(t)
    \/ \E t \in Turns : \E i \in 1..Len(tool_uses[t]) :
           \E res \in RunResults \cup {RunErr(ParseFailure)} : ToolCompletes(t, i, res)
    \/ \E t \in Turns : JoinToolResults(t)

Spec == Init /\ [][Next]_vars

\* ------------------------------------------------------------ observations
CompleteToolUses(events) == SelectSeq(events, IsCompleteToolUse)

\* the step of turn t that appends the round's tool-result message
JoinStep(t) == pc[t] = "awaiting" /\ pc'[t] = "requesting"

\* a step in which the model delivers an event to turn t; the event
EventStep(t) == Len(received'[t]) = Len(received[t]) /\ received'[t] # received[t]
Delivered(t) == Last(Last(received'[t]))

\* a step in which tool task i of turn t becomes ready
CompletionStep(t, i) ==
    /\ Len(tool_uses'[t]) = Len(tool_uses[t])
    /\ tool_uses[t][i].output = <<>>
    /\ tool_uses'[t][i].output # <<>>

HasErr(channel) == \E k \in 1..Len(channel) : ~channel[k].ok

OkEvents(channel) ==
    Map(SelectSeq(channel, LAMBDA item : item.ok), LAMBDA item : item.event)

\* the parts of msgs, as <<message index, part index>> pairs
PartsOf(msgs) == {<<m, p>> \in (1..Len(msgs)) \X (1..MaxInputs + 1) :
                     p <= Len(msgs[m].content)}
PartAt(msgs, mp) == msgs[mp[1]].content[mp[2]]
Before(a, b) == a[1] < b[1] \/ (a[1] = b[1] /\ a[2] < b[2])

IsToolResultsMessage(message) ==
    /\ message.role = "User"
    /\ \A p \in 1..Len(message.content) : message.content[p].type = "ToolResult"

\* the message pushed by send()
IsSendMessage(message) ==
    message.role = "User" /\ message.content = <<TextPart(UserContent)>>

SendIndexes(msgs) == {m \in 1..Len(msgs) : IsSendMessage(msgs[m])}

\* the indexes of the messages appended after the t-th send() and before the next
TurnMessages(msgs, t) ==
    {m \in 1..Len(msgs) :
        Cardinality({s \in SendIndexes(msgs) : s <= m}) = t /\ ~IsSendMessage(msgs[m])}

\* C1: the tool-result message appended by a round lists one result per complete
\* tool call of the round, in the order in which the calls were received, with the
\* id and the name of the call, whatever the order in which the tasks completed.
C1_FanInOrder ==
    [][\A t \in Turns : JoinStep(t) =>
          LET calls == CompleteToolUses(Last(received[t]))
              parts == Last(messages').content
          IN  /\ Len(messages') = Len(messages) + 1
              /\ Last(messages').role = "User"
              /\ Len(parts) = Len(calls)
              /\ \A i \in 1..Len(calls) :
                    /\ parts[i].type = "ToolResult"
                    /\ parts[i].result.tool_use_id = calls[i].tool_use.id
                    /\ parts[i].result.tool_name = calls[i].tool_use.name]_vars

\* the second call of a round completed before the first, and the message is appended
C1_Witness ==
    /\ messages # <<>>
    /\ IsToolResultsMessage(Last(messages))
    /\ LET parts == Last(messages).content
       IN  /\ Len(parts) >= 2
           /\ \E j, k \in 1..Len(completion_order) :
                 /\ j < k
                 /\ completion_order[j] = parts[2].result.tool_use_id
                 /\ completion_order[k] = parts[1].result.tool_use_id

\* C2: the tool-result message is appended, and the next request built, only when
\* every tool task queued in the round is ready; no request of a later round exists
\* while a task of the round is still running.
C2_JoinWaitsForAll ==
    [][\A t \in Turns :
          /\ (JoinStep(t) \/ nreq'[t] > nreq[t]) =>
                \A i \in 1..Len(tool_uses[t]) : TaskReady(tool_uses[t][i])
          /\ pc'[t] \in {"requesting", "opening"} => tool_uses'[t] = <<>>]_vars

\* the join is waiting: one task of the round is ready and another still runs
C2_Witness ==
    \E t \in Turns :
        /\ pc[t] = "awaiting"
        /\ \E i, j \in 1..Len(tool_uses[t]) :
              TaskReady(tool_uses[t][i]) /\ ~TaskReady(tool_uses[t][j])

\* C3: a round whose response holds no complete tool call ends the turn: nothing
\* is appended and no request follows; when that round is the first, the turn
\* issued exactly one request and appended no tool-result message.
C3_NoToolCallEndsTurn ==
    [][\A t \in Turns :
          /\ (/\ pc[t] = "streaming"
              /\ pc'[t] \notin {"streaming", "dropped"}
              /\ CompleteToolUses(Last(received[t])) = <<>>)
             => pc'[t] = "done" /\ messages' = messages /\ nreq' = nreq
          /\ (/\ pc'[t] \notin {"unborn", "requesting", "opening", "streaming"}
              /\ received'[t] # <<>>
              /\ CompleteToolUses(received'[t][1]) = <<>>)
             => /\ pc'[t] \in {"done", "dropped"}
                /\ nreq'[t] = 1
                /\ Len(received'[t]) = 1
                /\ \A m \in TurnMessages(messages', t) :
                       ~IsToolResultsMessage(messages'[m])]_vars

\* a turn that ended after one round of events without a tool call
C3_Witness ==
    \E t \in Turns :
        /\ pc[t] = "done"
        /\ Len(received[t]) = 1
        /\ received[t][1] # <<>>
        /\ CompleteToolUses(received[t][1]) = <<>>
        /\ nreq[t] = 1
        /\ ~HasErr(events_rx[t])

\* C4: once the event source has yielded an error, which is on the channel, the turn
\* has ended: no request follows and no tool-result message is appended, also when
\* tool calls were queued earlier in the round.
C4_StreamErrorEndsTurn ==
    \A t \in Turns : HasErr(events_rx[t]) => pc[t] \in {"done", "dropped"}

\* C5: a Stop with a reason other than EndTurn and ToolUse does not crash the engine:
\* it is surfaced as a terminal error on the event channel.
C5_UnsupportedStopSurfaced ==
    \A t \in Turns :
        (\E k \in 1..Len(events_rx[t]) :
            events_rx[t][k] = OkItem(StopEvent("MaxTokens")))
        => ~crashed /\ ~Last(events_rx[t]).ok

\* the step of turn t that appends the round's tool-result message appends the
\* outputs of the round's tasks, one part each, and goes on to the next request
JoinsOutputs(t) ==
    LET parts == Last(messages').content
    IN  /\ Len(parts) = Len(tool_uses[t])
        /\ \A i \in 1..Len(parts) :
              parts[i] = [type |-> "ToolResult", result |-> tool_uses[t][i].output[1]]
        /\ pc'[t] = "requesting"
        /\ events_rx' = events_rx
        /\ ~crashed'

\* C6: a complete tool use whose name is not registered yields a ready task whose
\* result has is_error = TRUE, the content "No tool named <name> exists" and the id
\* and name of the request; the turn goes on streaming, and the result is joined
\* with the round's other results before the next request.
C6_UnknownTool ==
    [][\A t \in Turns :
          /\ (/\ EventStep(t)
              /\ IsCompleteToolUse(Delivered(t))
              /\ Delivered(t).tool_use.name \notin DOMAIN tools)
             => /\ tool_uses'[t] = Append(tool_uses[t],
                       [tool_use_id |-> Delivered(t).tool_use.id,
                        tool_name |-> Delivered(t).tool_use.name,
                        run |-> <<>>,
                        output |-> <<[tool_use_id |-> Delivered(t).tool_use.id,
                                      tool_name |-> Delivered(t).tool_use.name,
                                      is_error |-> TRUE,
                                      content |-> <<"No tool named ",
                                                    Delivered(t).tool_use.name,
                                                    " exists">>]>>])
                /\ pc'[t] = "streaming"
                /\ ~HasErr(events_rx'[t]) \/ HasErr(events_rx[t])
                /\ ~crashed'
          /\ JoinStep(t) => JoinsOutputs(t)]_vars

\* the result of an unknown tool is in the history and the turn built its next request
C6_Witness ==
    \E t \in Turns :
        /\ nreq[t] >= 2
        /\ \E mp \in PartsOf(request[t].messages) :
              LET part == PartAt(request[t].messages, mp)
              IN  /\ part.type = "ToolResult"
                  /\ part.result.is_error
                  /\ part.result.content = <<"No tool named ", "echo", " exists">>

\* C7: a registered tool whose run fails, or whose input does not deserialize,
\* yields a result with is_error = TRUE and the error text; the step puts nothing
\* on the event channel and the turn goes on.
C7_ToolFailureIsAResult ==
    [][\A t \in Turns :
          /\ \A i \in 1..Len(tool_uses[t]) : CompletionStep(t, i) =>
                LET before == tool_uses[t][i]
                    after == tool_uses'[t][i]
                IN  /\ ~after.run[1].ok =>
                           after.output[1] = [tool_use_id |-> before.tool_use_id,
                                              tool_name |-> before.tool_name,
                                              is_error |-> TRUE,
                                              content |-> after.run[1].value]
                    /\ events_rx' = events_rx
                    /\ pc' = pc
                    /\ ~crashed'
          /\ (/\ EventStep(t)
              /\ IsCompleteToolUse(Delivered(t))
              /\ Delivered(t).tool_use.name \in DOMAIN tools
              /\ Delivered(t).tool_use.input = "invalid")
             => /\ Last(tool_uses'[t]).run = <<[ok |-> FALSE, value |-> ParseFailure]>>
                /\ pc'[t] = "streaming"
                /\ ~HasErr(events_rx'[t]) \/ HasErr(events_rx[t])
                /\ ~crashed'
          /\ JoinStep(t) => JoinsOutputs(t)]_vars

\* a failed run and a failed deserialization are both in the history as error
\* results, with no error on the channel, and the turn built its next request
C7_Witness ==
    \E t \in Turns :
        /\ nreq[t] >= 2
        /\ ~HasErr(events_rx[t])
        /\ \E a, b \in PartsOf(request[t].messages) :
              LET x == PartAt(request[t].messages, a)
                  y == PartAt(request[t].messages, b)
              IN  /\ x.type = "ToolResult" /\ y.type = "ToolResult"
                  /\ x.result.is_error /\ y.result.is_error
                  /\ x.result.content \in Failures
                  /\ y.result.content = ParseFailure

\* C8: the Ok events on a turn's channel are the events the model delivered to the
\* turn, in the same order over all its rounds, also when the handler of the last
\* one panicked; every tool-use part of the history, every text delta of an
\* assistant message and every tool task launched has its event on a channel.
C8_EventsForwardedInOrder ==
    /\ \A t \in Turns : OkEvents(events_rx[t]) = Flatten(received[t])
    /\ LET forwarded == UNION {{events_rx[t][k].event : k \in
                                  {j \in 1..Len(events_rx[t]) : events_rx[t][j].ok}} :
                               t \in Turns}
       IN  /\ \A mp \in PartsOf(messages) :
                 LET part == PartAt(messages, mp)
                 IN  /\ part.type = "ToolUse" => ToolUseEvent(part.tool_use) \in forwarded
                     /\ (part.type = "Text" /\ messages[mp[1]].role = "Assistant") =>
                            \A d \in 1..Len(part.text) :
                                TextEvent(<<part.text[d]>>) \in forwarded
           /\ \A t \in Turns : \A i \in 1..Len(tool_uses[t]) :
                 \E e \in forwarded :
                     IsCompleteToolUse(e) /\ e.tool_use.id = tool_uses[t][i].tool_use_id

\* a turn received events in two rounds
C8_Witness ==
    \E t \in Turns :
        /\ Len(received[t]) = 2
        /\ received[t][1] # <<>>
        /\ received[t][2] # <<>>
        /\ Len(events_rx[t]) = 2

\* every ToolResult part of msgs comes after a ToolUse part with its id
ToolUsePrecedesResult(msgs) ==
    \A r \in PartsOf(msgs) :
        PartAt(msgs, r).type = "ToolResult" =>
            \E u \in PartsOf(msgs) :
                /\ Before(u, r)
                /\ PartAt(msgs, u).type = "ToolUse"
                /\ PartAt(msgs, u).tool_use.id = PartAt(msgs, r).result.tool_use_id

\* C9: in the history, and in every request built from it, a ToolResult part with
\* tool_use_id X is preceded by a ToolUse part with id X.
C9_ToolUseBeforeResult ==
    /\ ToolUsePrecedesResult(messages)
    /\ \A t \in Turns : ToolUsePrecedesResult(request[t].messages)

\* a request that carries a tool result
C9_Witness ==
    \E t \in Turns : \E mp \in PartsOf(request[t].messages) :
        PartAt(request[t].messages, mp).type = "ToolResult"

Pending(t) == pc[t] \notin {"unborn", "done", "dropped"}

C12_EveryToolUseAppended ==
    [][\A t \in Turns :
          (EventStep(t) /\ Delivered(t).type = "ToolUse")
          => /\ messages' # <<>>
             /\ Last(messages').role = "Assistant"
             /\ Last(messages').content # <<>>
             /\ Last(Last(messages').content) = ToolUsePart(Delivered(t).tool_use)]_vars

\* C13: a tool task is queued by a ToolUse event whose input is complete and by
\* nothing else: while a round streams or awaits its join, its tasks are, one for
\* one and in order, the complete ToolUse events the round received; an event that
\* is not a complete ToolUse, a partial delta included, queues and runs nothing.
C13_TasksOnlyForCompleteToolUses ==
    [][\A t \in Turns :
          /\ pc'[t] \in {"streaming", "awaiting"} =>
                LET calls == CompleteToolUses(Last(received'[t]))
                IN  /\ Len(tool_uses'[t]) = Len(calls)
                    /\ \A i \in 1..Len(calls) :
                          /\ tool_uses'[t][i].tool_use_id = calls[i].tool_use.id
                          /\ tool_uses'[t][i].tool_name = calls[i].tool_use.name
          /\ (EventStep(t) /\ ~IsCompleteToolUse(Delivered(t))) =>
                /\ tool_uses' = tool_uses
                /\ completion_order' = completion_order
          /\ (EventStep(t) /\ IsCompleteToolUse(Delivered(t))) =>
                /\ Len(tool_uses'[t]) = Len(tool_uses[t]) + 1
                /\ \A i \in 1..Len(tool_uses[t]) : tool_uses'[t][i] = tool_uses[t][i]
          /\ Len(tool_uses'[t]) > Len(tool_uses[t]) => EventStep(t)]_vars

\* a round received a partial delta of a registered tool and then the complete
\* tool use: one task is queued
C13_Witness ==
    \E t \in Turns :
        /\ pc[t] = "streaming"
        /\ Len(Last(received[t])) = 2
        /\ Last(received[t])[1].type = "ToolUse"
        /\ ~IsCompleteToolUse(Last(received[t])[1])
        /\ IsCompleteToolUse(Last(received[t])[2])
        /\ "echo" \in DOMAIN tools
        /\ Len(tool_uses[t]) = 1

\* the longest run of Text events that ends a round's events
RECURSIVE TrailingTexts(_)
TrailingTexts(events) ==
    IF events = <<>> \/ Last(events).type # "Text"
    THEN <<>>
    ELSE Append(TrailingTexts(SubSeq(events, 1, Len(events) - 1)), Last(events))

\* the deltas of a sequence of Text events, concatenated in arrival order
Concatenation(texts) == Flatten(Map(texts, LAMBDA e : e.text))

\* the event that came before a trailing run of Text events left the history
\* without a trailing Text part: the run opens the round, or follows a complete
\* tool use or a StartMessage
RunOpensPart(events) ==
    LET k == Len(events) - Len(TrailingTexts(events))
    IN  k = 0 \/ IsCompleteToolUse(events[k]) \/ events[k].type = "StartMessage"

\* C14: a Text(delta) event extends the last part of the last message when that
\* message is from the assistant and the part is Text; otherwise it pushes a new
\* Text part, on a new Assistant message when the last message is not from the
\* assistant; nothing else of the history changes.  After a run of consecutive
\* Text deltas the trailing Text part ends with their concatenation in arrival
\* order, and is that concatenation when the first delta of the run opened the part.
C14_TextIsAppended ==
    [][\A t \in Turns : (EventStep(t) /\ Delivered(t).type = "Text") =>
          LET delta == Delivered(t).text
              n == Len(messages)
              run == Concatenation(TrailingTexts(Last(received'[t])))
              part == Last(Last(messages').content)
          IN  /\ IF n > 0 /\ messages[n].role = "Assistant"
                 THEN LET content == messages[n].content
                          c == Len(content)
                      IN  /\ Len(messages') = n
                          /\ \A m \in 1..(n - 1) : messages'[m] = messages[m]
                          /\ messages'[n].role = "Assistant"
                          /\ IF c > 0 /\ content[c].type = "Text"
                             THEN /\ Len(messages'[n].content) = c
                                  /\ \A p \in 1..(c - 1) :
                                        messages'[n].content[p] = content[p]
                                  /\ messages'[n].content[c] =
                                        [type |-> "Text", text |-> content[c].text \o delta]
                             ELSE /\ Len(messages'[n].content) = c + 1
                                  /\ \A p \in 1..c :
                                        messages'[n].content[p] = content[p]
                                  /\ messages'[n].content[c + 1] =
                                        [type |-> "Text", text |-> delta]
                 ELSE /\ Len(messages') = n + 1
                      /\ \A m \in 1..n : messages'[m] = messages[m]
                      /\ messages'[n + 1] =
                            [role |-> "Assistant",
                             content |-> <<[type |-> "Text", text |-> delta]>>]
              /\ part.type = "Text"
              /\ Len(part.text) >= Len(run)
              /\ SubSeq(part.text, Len(part.text) - Len(run) + 1, Len(part.text)) = run
              /\ RunOpensPart(Last(received'[t])) => part.text = run]_vars

\* two consecutive Text deltas are in the one part of a new assistant message
C14_Witness ==
    /\ Len(messages) = 2
    /\ Last(messages).role = "Assistant"
    /\ Len(Last(messages).content) = 1
    /\ Last(messages).content[1].type = "Text"
    /\ Len(Last(messages).content[1].text) = 2
    /\ \E t \in Turns :
          received[t] # <<>> /\ Len(TrailingTexts(Last(received[t]))) = 2

\* ------------------------------------------------- the executor's scheduling
\* a step of the orchestration task of turn t or of one of its tool tasks
TaskStep(t) ==
    \/ BuildRequest(t)
    \/ OpenStream(t) \/ OpenStreamFails(t)
    \/ StreamEnds(t) \/ StreamFails(t) \/ \E event \in Events : StreamEvent(t, event)
    \/ \E i \in 1..Len(tool_uses[t]) :
           \E res \in RunResults \cup {RunErr(ParseFailure)} : ToolCompletes(t, i, res)
    \/ JoinToolResults(t)

\* The foreground executor does not idle while a task can run: stream_completion
\* resolves, an open stream yields its next item or ends (the provider's streams
\* are finite), a running tool resolves, and a task that is ready is polled.
Fairness == WF_vars(\E t \in Turns : TaskStep(t))

FairSpec == Init /\ [][Next]_vars /\ Fairness

\* the tool-result messages appended after the t-th send() and before the next
ResultMessages(msgs, t) ==
    {m \in TurnMessages(msgs, t) : IsToolResultsMessage(msgs[m])}

\* C15: a round that queued n >= 1 tool calls and ended its stream waits for the
\* join, which appends exactly one message: role User, n ToolResult parts, part i
\* for the i-th queued call.  The turn then builds exactly one request, from the
\* history that ends with that message: a turn that is not superseded has
\* appended one tool-result message per request before its latest.
C15_OneResultMessagePerRound ==
    [][\A t \in Turns :
          /\ (pc[t] = "streaming" /\ pc'[t] \notin {"streaming", "dropped"}) =>
                 IF tool_uses[t] # <<>>
                 THEN pc'[t] = "awaiting" /\ messages' = messages
                 ELSE pc'[t] = "done"
          /\ JoinStep(t) =>
                 LET n == Len(tool_uses[t])
                 IN  /\ n >= 1
                     /\ Len(messages') = Len(messages) + 1
                     /\ SubSeq(messages', 1, Len(messages)) = messages
                     /\ Last(messages').role = "User"
                     /\ Len(Last(messages').content) = n
                     /\ \A i \in 1..n :
                           /\ Last(messages').content[i].type = "ToolResult"
                           /\ Last(messages').content[i].result.tool_use_id =
                                  tool_uses[t][i].tool_use_id
          /\ (pc[t] = "awaiting" /\ pc'[t] # "awaiting") =>
                 JoinStep(t) \/ pc'[t] = "dropped"
          /\ (pc[t] = "requesting" /\ nreq[t] >= 1 /\ pc'[t] # "requesting") =>
                 \/ pc'[t] = "dropped"
                 \/ /\ pc'[t] = "opening"
                    /\ nreq'[t] = nreq[t] + 1
                    /\ IsToolResultsMessage(Last(messages))
                    /\ Len(request'[t].messages) = Len(messages)
                    /\ Last(request'[t].messages).role = "User"
                    /\ Last(request'[t].messages).content = Last(messages).content
          /\ pc'[t] \notin {"unborn", "dropped"} =>
                 Cardinality(ResultMessages(messages', t)) =
                     IF pc'[t] = "requesting" THEN nreq'[t] ELSE nreq'[t] - 1]_vars

\* under the executor's fairness the join and the request do follow, unless the
\* turn is superseded
JoinAndRequestFollow ==
    \A t \in Turns :
        pc[t] = "awaiting" ~>
            (pc[t] = "dropped" \/ (pc[t] = "opening" /\ nreq[t] >= 2))

\* a round queued two tool calls; its message of two results is the last message
\* of the request the turn built next
C15_Witness ==
    \E t \in Turns :
        /\ pc[t] = "opening"
        /\ nreq[t] = 2
        /\ Len(CompleteToolUses(received[t][1])) = 2
        /\ IsToolResultsMessage(Last(messages))
        /\ Len(Last(messages).content) = 2
        /\ Last(request[t].messages).content = Last(messages).content

\* ------------------------------------------------------ a configured agent
\* An agent whose registry and system prompts were set up before the first
\* send(): any set of registered tools, any list of system prompts.
InitConfigured ==
    /\ messages = <<>>
    /\ \E names \in SUBSET RegistryNames : tools = [name \in names |-> SessionTool(name)]
    /\ system_prompts \in PromptLists
    /\ running_turn = NoTurn
    /\ sends = 0
    /\ pc = [t \in Turns |-> "unborn"]
    /\ tool_uses = [t \in Turns |-> <<>>]
    /\ request = [t \in Turns |-> NoRequest]
    /\ nreq = [t \in Turns |-> 0]
    /\ events_rx = [t \in Turns |-> <<>>]
    /\ received = [t \in Turns |-> <<>>]
    /\ completion_order = <<>>
    /\ crashed = FALSE
    /\ NoResolution
    /\ NoStream

\* send() and the requests of its turns, the model answering with empty streams
NextConfigured ==
    \/ Send
    \/ \E t \in Turns : BuildRequest(t)
    \/ \E t \in Turns : OpenStream(t)
    \/ \E t \in Turns : OpenStreamFails(t)
    \/ \E t \in Turns : StreamFails(t)
    \/ \E t \in Turns : StreamEnds(t)

ConfiguredSpec == InitConfigured /\ [][NextConfigured]_vars

\* C16: the request built by a turn lists the registered tools whose input schema
\* serializes, all of them and no other; with a tool whose schema fails in the
\* registry the request is still built over the whole history, nothing is put on
\* the channel, and the turn goes on to open its stream.
C16_UnserializableToolOmitted ==
    [][\A t \in Turns :
          (pc[t] = "requesting" /\ pc'[t] # "requesting") =>
             \/ pc'[t] = "dropped"
             \/ /\ pc'[t] = "opening"
                /\ OpaqueTool \notin request'[t].tools
                /\ \A name \in DOMAIN tools \ {OpaqueTool} : name \in request'[t].tools
                /\ request'[t].tools \subseteq DOMAIN tools
                /\ Len(request'[t].messages) = Len(messages)
                /\ \A m \in 1..Len(messages) :
                      /\ request'[t].messages[m].role = messages[m].role
                      /\ request'[t].messages[m].content = messages[m].content
                /\ events_rx' = events_rx
                /\ messages' = messages
                /\ ~crashed']_vars

\* a turn built its request from a registry holding a tool whose schema fails and
\* one whose schema serializes, and its stream is open
C16_Witness ==
    \E t \in Turns :
        /\ DOMAIN tools = {"echo", OpaqueTool}
        /\ pc[t] = "streaming"
        /\ request[t].tools = {"echo"}
        /\ events_rx[t] = <<>>

\* the places of the prompts that render, and the j-th of them in list order
RenderingPlaces(prompts) == {i \in 1..Len(prompts) : prompts[i].renders}
RenderingPlace(prompts, j) ==
    CHOOSE i \in RenderingPlaces(prompts) :
        Cardinality({x \in RenderingPlaces(prompts) : x < i}) = j - 1

\* C18: send() appends a User message holding its content as the last message and
\* starts its turn, whether or not the system prompts render.  Before it comes a
\* System message exactly when some prompt renders: its parts are the texts of the
\* prompts that render, in list order, a failing prompt leaving no part.  The
\* history never holds a System message without content.
C18_SendSkipsFailedPrompts ==
    [][sends' = sends + 1 =>
          LET n == Len(messages)
              k == Cardinality(RenderingPlaces(system_prompts))
          IN  /\ SubSeq(messages', 1, n) = messages
              /\ Last(messages') =
                    [role |-> "User",
                     content |-> <<[type |-> "Text", text |-> UserContent]>>]
              /\ pc'[sends'] = "requesting"
              /\ ~crashed'
              /\ IF k = 0
                 THEN Len(messages') = n + 1
                 ELSE /\ Len(messages') = n + 2
                      /\ messages'[n + 1].role = "System"
                      /\ Len(messages'[n + 1].content) = k
                      /\ \A j \in 1..k :
                            messages'[n + 1].content[j] =
                                [type |-> "Text",
                                 text |-> system_prompts[
                                              RenderingPlace(system_prompts, j)].text]
              /\ \A m \in 1..Len(messages') :
                    messages'[m].role = "System" => messages'[m].content # <<>>]_vars

\* send() on an agent whose first prompt fails and whose second renders: the
\* System message holds the second prompt only, and the turn built its request
C18_Witness ==
    /\ Len(system_prompts) = 2
    /\ ~system_prompts[1].renders
    /\ system_prompts[2].renders
    /\ Len(messages) = 2
    /\ messages[1] = [role |-> "System",
                      content |-> <<[type |-> "Text", text |-> system_prompts[2].text]>>]
    /\ messages[2].role = "User"
    /\ pc[1] = "opening"

\* send() on an agent none of whose prompts renders: no System message
C18_WitnessNoneRenders ==
    /\ system_prompts # <<>>
    /\ RenderingPlaces(system_prompts) = {}
    /\ Len(messages) = 1
    /\ pc[1] = "requesting"

TurnEndsUnlessPanic ==
    \A t \in Turns : Pending(t) ~> (pc[t] \in {"done", "dropped"} \/ crashed)

\* =========================================================================
\* EditAgent::resolve_location, crates/assistant_tools/src/edit_agent.rs
\* =========================================================================
\* A text is the sequence of its bytes, each a one-character string.

INSERTION_COST == 3
DELETION_COST == 10
WHITESPACE_INSERTION_COST == 1
WHITESPACE_DELETION_COST == 1
\* u32::MAX.  TLC's integers end at 2^31 - 1, which stands for it: the costs of the
\* texts explored stay far below either, so no addition saturates.
U32_MAX == 2147483647

\* u8::is_ascii_whitespace: space, tab, line feed, form feed, carriage return
AsciiWhitespace == {" ", "\t", "\n", "\f", "\r"}
is_ascii_whitespace(byte) == byte \in AsciiWhitespace

saturating_add(a, b) == IF a + b > U32_MAX THEN U32_MAX ELSE a + b

SearchState(cost, direction) == [cost |-> cost, direction |-> direction]

\* an order of the variants that puts Diagonal first
DirectionRankDiagonalFirst(direction) ==
    CASE direction = "Diagonal" -> 0
      [] direction = "Up" -> 1
      [] direction = "Left" -> 2

\* derive(PartialOrd, Ord) on SearchDirection: the order of the variants
DirectionRank(direction) ==
    CASE direction = "Up" -> 0
      [] direction = "Left" -> 1
      [] direction = "Diagonal" -> 2

\* derive(PartialOrd, Ord) on SearchState: by cost, then by direction
StateLess(a, b) ==
    \/ a.cost < b.cost
    \/ a.cost = b.cost /\ DirectionRank(a.direction) < DirectionRank(b.direction)

\* Ord::min: the second operand only when it is less than the first
min(a, b) == IF StateLess(b, a) THEN b ELSE a

\* a matrix that has no row for the empty query
SearchMatrixNewWithoutRowZero(rows, cols) ==
    [cols |-> cols,
     data |-> [i \in 1..((rows - 1) * cols) |-> SearchState(0, "Diagonal")],
     panicked |-> FALSE]

\* SearchMatrix::new: rows * cols cells of cost 0, direction Diagonal.
\* panicked: an index into data was out of bounds
SearchMatrixNew(rows, cols) ==
    [cols |-> cols,
     data |-> [i \in 1..(rows * cols) |-> SearchState(0, "Diagonal")],
     panicked |-> FALSE]

\* indexing a Vec out of its bounds panics: what a read yields instead of a cell
OutOfBounds == [cost |-> 0, direction |-> "OutOfBounds"]

\* data[row * cols + col] is an element of data
InBounds(m, row, col) == row * m.cols + col < Len(m.data)

\* SearchMatrix::get, SearchMatrix::set: data[row * cols + col], data being 0-based
get(m, row, col) ==
    IF InBounds(m, row, col) THEN m.data[row * m.cols + col + 1] ELSE OutOfBounds

set(m, row, col, state) ==
    IF InBounds(m, row, col) /\ state # OutOfBounds
    THEN [m EXCEPT !.data[row * m.cols + col + 1] = state]
    ELSE [m EXCEPT !.panicked = TRUE]

\* a deletion cost that takes no account of whitespace
deletion_cost_of_any_byte(query_byte) == DELETION_COST

deletion_cost_of(query_byte) ==
    IF is_ascii_whitespace(query_byte) THEN WHITESPACE_DELETION_COST ELSE DELETION_COST

insertion_cost_of(buffer_byte) ==
    IF is_ascii_whitespace(buffer_byte) THEN WHITESPACE_INSERTION_COST ELSE INSERTION_COST

\* a cell whose diagonal candidate pays for a substitution also when the bytes match
CellAlwaysSubstituting(m, row, col, query_byte, buffer_byte) ==
    LET deletion_cost == deletion_cost_of(query_byte)
        insertion_cost == insertion_cost_of(buffer_byte)
        up == SearchState(saturating_add(get(m, row, col + 1).cost, deletion_cost), "Up")
        left == SearchState(saturating_add(get(m, row + 1, col).cost, insertion_cost),
                            "Left")
        diagonal == SearchState(saturating_add(get(m, row, col).cost,
                                               deletion_cost + insertion_cost),
                                "Diagonal")
    IN  IF OutOfBounds \in {get(m, row, col + 1), get(m, row + 1, col), get(m, row, col)}
        THEN OutOfBounds
        ELSE min(min(up, left), diagonal)

\* lines 126-145: the cell stored at (row + 1, col + 1)
Cell(m, row, col, query_byte, buffer_byte) ==
    LET deletion_cost == deletion_cost_of(query_byte)
        insertion_cost == insertion_cost_of(buffer_byte)
        up == SearchState(saturating_add(get(m, row, col + 1).cost, deletion_cost), "Up")
        left == SearchState(saturating_add(get(m, row + 1, col).cost, insertion_cost),
                            "Left")
        diagonal == SearchState(
                        IF query_byte = buffer_byte
                        THEN get(m, row, col).cost
                        ELSE saturating_add(get(m, row, col).cost,
                                            deletion_cost + insertion_cost),
                        "Diagonal")
    IN  IF OutOfBounds \in {get(m, row, col + 1), get(m, row + 1, col), get(m, row, col)}
        THEN OutOfBounds
        ELSE min(min(up, left), diagonal)

\* the inner loop, lines 119-146, from column col on: one pass per byte of the
\* buffer, the matrix having one column more than the buffer has bytes
RECURSIVE FillCols(_, _, _, _, _)
FillCols(m, row, query_byte, buf, col) ==
    IF col + 1 >= m.cols
    THEN m
    ELSE FillCols(set(m, row + 1, col + 1, Cell(m, row, col, query_byte, buf[col + 1])),
                  row, query_byte, buf, col + 1)

\* the outer loop, lines 105-147, from row row on: one pass per byte of the
\* query, the matrix having one row more than the query has bytes
RECURSIVE FillRows(_, _, _, _, _)
FillRows(m, leading_deletion_cost, buf, query, row) ==
    IF (row + 1) * m.cols >= Len(m.data)
    THEN m
    ELSE LET leading == saturating_add(leading_deletion_cost,
                                       deletion_cost_of(query[row + 1]))
             first == set(m, row + 1, 0, SearchState(leading, "Diagonal"))
         IN  FillRows(FillCols(first, row, query[row + 1], buf, 0),
                      leading, buf, query, row + 1)

\* lines 101-147: the matrix after the fill
Fill(buf, query) ==
    FillRows(SearchMatrixNew(Len(query) + 1, Len(buf) + 1), 0, buf, query, 0)

\* what stands for a value when the computation of it panicked
Panic == -1

\* a scan that keeps the last of the columns of lowest cost
RECURSIVE ScanBottomRowKeepingLast(_, _, _, _, _, _)
ScanBottomRowKeepingLast(m, query_len, buffer_len, col, best_cost, best_end) ==
    IF col > buffer_len
    THEN best_end
    ELSE LET cost == get(m, query_len, col).cost
         IN  IF get(m, query_len, col) = OutOfBounds
             THEN Panic
             ELSE IF cost <= best_cost
                  THEN ScanBottomRowKeepingLast(m, query_len, buffer_len, col + 1, cost, col)
                  ELSE ScanBottomRowKeepingLast(m, query_len, buffer_len, col + 1, best_cost, best_end)

\* lines 150-158: the scan of row query_len, from column col on
RECURSIVE ScanBottomRow(_, _, _, _, _, _)
ScanBottomRow(m, query_len, buffer_len, col, best_cost, best_end) ==
    IF col > buffer_len
    THEN best_end
    ELSE LET cost == get(m, query_len, col).cost
         IN  IF get(m, query_len, col) = OutOfBounds
             THEN Panic
             ELSE IF cost < best_cost
                  THEN ScanBottomRow(m, query_len, buffer_len, col + 1, cost, col)
                  ELSE ScanBottomRow(m, query_len, buffer_len, col + 1, best_cost, best_end)

\* a scan that settles for the end of the document
BestBufferEndAtDocumentEnd(m, query_len, buffer_len) == buffer_len

BestBufferEnd(m, query_len, buffer_len) ==
    ScanBottomRow(m, query_len, buffer_len, 1, U32_MAX, buffer_len)

\* ---- BufferSnapshot (language::BufferSnapshot): positions in a text
\* the offsets of the line feeds before offset
LineFeedsBefore(buf, offset) == {i \in 1..offset : buf[i] = "\n"}

\* the offset at which the line holding offset starts
LineStart(buf, offset) ==
    IF LineFeedsBefore(buf, offset) = {}
    THEN 0
    ELSE CHOOSE i \in LineFeedsBefore(buf, offset) :
             \A j \in LineFeedsBefore(buf, offset) : j <= i

offset_to_point(buf, offset) ==
    [row |-> Cardinality(LineFeedsBefore(buf, offset)),
     column |-> offset - LineStart(buf, offset)]

\* the offset at which line row starts
RowStart(buf, row) ==
    IF row = 0
    THEN 0
    ELSE CHOOSE i \in 1..Len(buf) :
             buf[i] = "\n" /\ Cardinality(LineFeedsBefore(buf, i)) = row

\* the length of line row, its line feed not counted
line_len(buf, row) ==
    LET start == RowStart(buf, row)
        feeds == {i \in (start + 1)..Len(buf) : buf[i] = "\n"}
    IN  IF feeds = {}
        THEN Len(buf) - start
        ELSE (CHOOSE i \in feeds : \A j \in feeds : i <= j) - 1 - start

point_to_offset(buf, point) == RowStart(buf, point.row) + point.column

\* every offset of an ASCII text is a character boundary
clip_offset(buf, offset) == offset

\* a snapping that takes the end through the line feed of its line
SnapToLinesThroughLineFeed(buf, start_offset, end_offset) ==
    LET start == [offset_to_point(buf, clip_offset(buf, start_offset))
                     EXCEPT !.column = 0]
        end == offset_to_point(buf, clip_offset(buf, end_offset))
        snapped_end == IF end.column > 0
                       THEN [end EXCEPT !.column = line_len(buf, end.row)]
                       ELSE end
        end_offset_snapped == point_to_offset(buf, snapped_end)
    IN  [start |-> point_to_offset(buf, start),
         end |-> IF end.column > 0 /\ end_offset_snapped < Len(buf)
                 THEN end_offset_snapped + 1
                 ELSE end_offset_snapped]

\* a snapping that takes the end to the end of its line also from column 0
SnapToLinesAlwaysToLineEnd(buf, start_offset, end_offset) ==
    LET start == [offset_to_point(buf, clip_offset(buf, start_offset))
                     EXCEPT !.column = 0]
        end == offset_to_point(buf, clip_offset(buf, end_offset))
        snapped_end == [end EXCEPT !.column = line_len(buf, end.row)]
    IN  [start |-> point_to_offset(buf, start), end |-> point_to_offset(buf, snapped_end)]

\* a snapping that leaves the start where the traceback ended
SnapToLinesKeepingStart(buf, start_offset, end_offset) ==
    LET end == offset_to_point(buf, clip_offset(buf, end_offset))
        snapped_end == IF end.column > 0
                       THEN [end EXCEPT !.column = line_len(buf, end.row)]
                       ELSE end
    IN  [start |-> start_offset, end |-> point_to_offset(buf, snapped_end)]

\* lines 178-185: the range returned, as offsets
SnapToLines(buf, start_offset, end_offset) ==
    LET start == [offset_to_point(buf, clip_offset(buf, start_offset))
                     EXCEPT !.column = 0]
        end == offset_to_point(buf, clip_offset(buf, end_offset))
        snapped_end == IF end.column > 0
                       THEN [end EXCEPT !.column = line_len(buf, end.row)]
                       ELSE end
    IN  [start |-> point_to_offset(buf, start), end |-> point_to_offset(buf, snapped_end)]

\* buffer.edit with one edit: the range is replaced by the new text
Edit(buf, range, replacement) ==
    SubSeq(buf, 1, range.start) \o replacement \o SubSeq(buf, range.end + 1, Len(buf))

\* ------------------------------------------------- the edits resolved
MaxBufferLen == 4       \* bytes of an enumerated buffer
MaxQueryLen == 3        \* bytes of an enumerated query

Bytes == {"a", "b", "\n"}
Texts(n) == UNION {[1..k -> Bytes] : k \in 0..n}

\* "struct User {\n    id: u32,\n}\n"
UserDocument ==
    <<"s", "t", "r", "u", "c", "t", " ", "U", "s", "e", "r", " ", "{", "\n", " ", " ",
      " ", " ", "i", "d", ":", " ", "u", "3", "2", ",", "\n", "}", "\n">>

\* "struct User {\n    id: u32,\n}"
UserQuery ==
    <<"s", "t", "r", "u", "c", "t", " ", "U", "s", "e", "r", " ", "{", "\n", " ", " ",
      " ", " ", "i", "d", ":", " ", "u", "3", "2", ",", "\n", "}">>

\* "struct User {\n    id: u32,\n    name: String,\n}"
UserReplacement ==
    <<"s", "t", "r", "u", "c", "t", " ", "U", "s", "e", "r", " ", "{", "\n", " ", " ",
      " ", " ", "i", "d", ":", " ", "u", "3", "2", ",", "\n", " ", " ", " ", " ", "n",
      "a", "m", "e", ":", " ", "S", "t", "r", "i", "n", "g", ",", "\n", "}">>

\* an edit: the snapshot's text, and the old_text and the new_text of the EditBlock
EditCase(buf, old_text, replacement) ==
    [buffer |-> buf, old_text |-> old_text, new_text |-> replacement]

\* "fn f() {\n    return 1;\n}\n"
FnDocument ==
    <<"f", "n", " ", "f", "(", ")", " ", "{", "\n", " ", " ", " ", " ", "r", "e", "t",
      "u", "r", "n", " ", "1", ";", "\n", "}", "\n">>

\* "return 1;"
FnQuery ==
    <<"r", "e", "t", "u", "r", "n", " ", "1", ";">>

\* "return 2;"
FnReplacement ==
    <<"r", "e", "t", "u", "r", "n", " ", "2", ";">>

Examples ==
    {EditCase(UserDocument, UserQuery, UserReplacement),
     EditCase(FnDocument, FnQuery, FnReplacement)}

EditCases ==
    {EditCase(buf, old_text, <<"b">>) :
        buf \in Texts(MaxBufferLen), old_text \in Texts(MaxQueryLen)}
    \cup Examples

\* resolve_location is entered with a snapshot and the old_text of an edit
InitResolve ==
    /\ AgentNew
    /\ NoStream
    /\ \E case \in EditCases :
          /\ buffer = case.buffer
          /\ search_query = case.old_text
          /\ edit_new_text = case.new_text
    /\ matrix = <<>>
    /\ best_buffer_end = 0
    /\ query_ix = 0
    /\ buffer_ix = 0
    /\ location = <<>>
    /\ edited_text = buffer
    /\ rpc = "start"

\* a fill that reads the text of the live buffer instead of the snapshot
FillMatrixFromLiveBuffer ==
    /\ rpc = "start"
    /\ matrix' = Fill(edited_text, search_query)
    /\ rpc' = IF matrix'.panicked THEN "panicked" ELSE "filled"
    /\ UNCHANGED <<agent_vars, stream_vars, buffer, search_query, edit_new_text, best_buffer_end,
                   query_ix, buffer_ix, location, edited_text>>

\* lines 101-147
FillMatrix ==
    /\ rpc = "start"
    /\ matrix' = Fill(buffer, search_query)
    /\ rpc' = IF matrix'.panicked THEN "panicked" ELSE "filled"
    /\ UNCHANGED <<agent_vars, stream_vars, buffer, search_query, edit_new_text, best_buffer_end,
                   query_ix, buffer_ix, location, edited_text>>

\* lines 149-161
FindBestEnd ==
    /\ rpc = "filled"
    /\ best_buffer_end' = BestBufferEnd(matrix, Len(search_query), Len(buffer))
    /\ query_ix' = Len(search_query)
    /\ buffer_ix' = best_buffer_end'
    /\ rpc' = IF best_buffer_end' = Panic THEN "panicked" ELSE "tracing"
    /\ UNCHANGED <<agent_vars, stream_vars, buffer, search_query, edit_new_text, matrix, location,
                   edited_text>>

\* an iteration in which Left consumes a query byte as well
TracebackStepLeftAsDiagonal ==
    /\ rpc = "tracing"
    /\ query_ix > 0 /\ buffer_ix > 0
    /\ LET current == get(matrix, query_ix, buffer_ix)
       IN  CASE current.direction \in {"Diagonal", "Left"} ->
                    query_ix' = query_ix - 1 /\ buffer_ix' = buffer_ix - 1 /\ rpc' = rpc
             [] current.direction = "Up" ->
                    query_ix' = query_ix - 1 /\ buffer_ix' = buffer_ix /\ rpc' = rpc
             [] current = OutOfBounds ->
                    query_ix' = query_ix /\ buffer_ix' = buffer_ix /\ rpc' = "panicked"
    /\ UNCHANGED <<agent_vars, stream_vars, buffer, search_query, edit_new_text, matrix,
                   best_buffer_end, location, edited_text>>

\* lines 162-176: one iteration of the traceback loop
TracebackStep ==
    /\ rpc = "tracing"
    /\ query_ix > 0 /\ buffer_ix > 0
    /\ LET current == get(matrix, query_ix, buffer_ix)
       IN  CASE current.direction = "Diagonal" ->
                    query_ix' = query_ix - 1 /\ buffer_ix' = buffer_ix - 1 /\ rpc' = rpc
             [] current.direction = "Up" ->
                    query_ix' = query_ix - 1 /\ buffer_ix' = buffer_ix /\ rpc' = rpc
             [] current.direction = "Left" ->
                    query_ix' = query_ix /\ buffer_ix' = buffer_ix - 1 /\ rpc' = rpc
             [] current = OutOfBounds ->
                    query_ix' = query_ix /\ buffer_ix' = buffer_ix /\ rpc' = "panicked"
    /\ UNCHANGED <<agent_vars, stream_vars, buffer, search_query, edit_new_text, matrix,
                   best_buffer_end, location, edited_text>>

\* lines 178-185: the loop is left and the range is returned
ReturnRange ==
    /\ rpc = "tracing"
    /\ ~(query_ix > 0 /\ buffer_ix > 0)
    /\ location' = SnapToLines(buffer, buffer_ix, best_buffer_end)
    /\ rpc' = "resolved"
    /\ UNCHANGED <<agent_vars, stream_vars, buffer, search_query, edit_new_text, matrix,
                   best_buffer_end, query_ix, buffer_ix, edited_text>>

\* tests::apply_edits, lines 498-501: buffer.edit(edits) and buffer.text()
ApplyEdit ==
    /\ rpc = "resolved"
    /\ edited_text' = Edit(buffer, location, edit_new_text)
    /\ rpc' = "edited"
    /\ UNCHANGED <<agent_vars, stream_vars, buffer, search_query, edit_new_text, matrix,
                   best_buffer_end, query_ix, buffer_ix, location>>

NextResolve ==
    \/ FillMatrix
    \/ FindBestEnd
    \/ TracebackStep
    \/ ReturnRange
    \/ ApplyEdit

ResolveSpec == InitResolve /\ [][NextResolve]_vars

\* the places at which old_text occurs in buf, as start offsets
Occurrences(buf, old_text) ==
    {s \in 0..(Len(buf) - Len(old_text)) :
        SubSeq(buf, s + 1, s + Len(old_text)) = old_text}

\* offset is where a line of buf starts
AtLineStart(buf, offset) == offset = 0 \/ buf[offset] = "\n"

\* offset is where a line of buf ends: before its line feed, or at the end of buf
AtLineEnd(buf, offset) == offset = Len(buf) \/ buf[offset + 1] = "\n"

\* no line feed of buf lies in the bytes from + 1 .. to
SameLine(buf, from, to) == \A i \in (from + 1)..to : buf[i] # "\n"

\* C19: when the query is not empty and occurs exactly once in the buffer, at
\* bytes [s, e), the traceback ends with the query consumed and the range [s, e),
\* and the range returned starts at column 0 of the line of s and ends at e when
\* e is at column 0, and otherwise at the end of the line of e.
C19_UniqueOccurrenceResolved ==
    (/\ rpc \in {"resolved", "edited"}
     /\ search_query # <<>>
     /\ Cardinality(Occurrences(buffer, search_query)) = 1)
    => LET s == CHOOSE o \in Occurrences(buffer, search_query) : TRUE
           e == s + Len(search_query)
       IN  /\ query_ix = 0
           /\ buffer_ix = s
           /\ best_buffer_end = e
           /\ location.start <= s
           /\ AtLineStart(buffer, location.start)
           /\ SameLine(buffer, location.start, s)
           /\ IF AtLineStart(buffer, e)
              THEN location.end = e
              ELSE /\ location.end >= e
                   /\ SameLine(buffer, e, location.end)
                   /\ AtLineEnd(buffer, location.end)

\* a query that occurs once, inside a line: the range returned is wider than the
\* occurrence at both ends
C19_Witness ==
    /\ rpc = "resolved"
    /\ Cardinality(Occurrences(buffer, search_query)) = 1
    /\ Len(search_query) >= 1
    /\ location.start < buffer_ix
    /\ location.end > best_buffer_end

\* "struct User {\n    id: u32,\n    name: String,\n}\n"
UserEdited ==
    <<"s", "t", "r", "u", "c", "t", " ", "U", "s", "e", "r", " ", "{", "\n", " ", " ",
      " ", " ", "i", "d", ":", " ", "u", "3", "2", ",", "\n", " ", " ", " ", " ", "n",
      "a", "m", "e", ":", " ", "S", "t", "r", "i", "n", "g", ",", "\n", "}", "\n">>

\* C20: for the document, the query and the replacement of the User example,
\* replacing the range returned by resolve_location by the replacement yields the
\* replacement followed by the document's last line feed.
C20_UserExample ==
    (/\ rpc = "edited"
     /\ buffer = UserDocument
     /\ search_query = UserQuery
     /\ edit_new_text = UserReplacement)
    => edited_text = UserEdited

\* the edit of the User example was applied, over the range of bytes 0 to 28
C20_Witness ==
    /\ rpc = "edited"
    /\ buffer = UserDocument
    /\ search_query = UserQuery
    /\ edit_new_text = UserReplacement
    /\ location = [start |-> 0, end |-> 28]
    /\ edited_text = UserEdited

\* the edit of the fn example has been resolved
FnResolved ==
    /\ rpc \in {"resolved", "edited"}
    /\ buffer = FnDocument
    /\ search_query = FnQuery

\* C21 as stated: for the fn example the range returned is the whole line
\* "    return 1;\n", from column 0 of the line through its line feed.
C21_FnLineThroughLineFeed ==
    FnResolved =>
        /\ location.start = 9
        /\ SubSeq(buffer, location.start + 1, location.end) =
               <<" ", " ", " ", " ", "r", "e", "t", "u", "r", "n", " ", "1", ";", "\n">>

\* C21: for the fn example the range returned starts at column 0 of the line of the
\* query, before the indentation, and ends at the end of that line, before its
\* line feed: it covers "    return 1;".
C21_FnLineWithoutLineFeed ==
    FnResolved =>
        /\ buffer_ix = 13
        /\ best_buffer_end = 22
        /\ location = [start |-> 9, end |-> 22]
        /\ SubSeq(buffer, location.start + 1, location.end) =
               <<" ", " ", " ", " ", "r", "e", "t", "u", "r", "n", " ", "1", ";">>
        /\ buffer[location.end + 1] = "\n"

\* the fn example resolved: the start was moved back over the indentation
C21_Witness ==
    /\ FnResolved
    /\ rpc = "resolved"
    /\ location.start < buffer_ix
    /\ location.end = 22

\* the document and the query have no byte in common
NoCommonByte ==
    \A i \in 1..Len(buffer) : \A j \in 1..Len(search_query) : buffer[i] # search_query[j]

\* C22: for every document and every query, resolve_location returns a range
\* without error: no access to the matrix is out of bounds, the traceback reads
\* a direction in every cell it visits, and the range returned satisfies
\* 0 <= start <= end <= length of the document.
C22_ReturnsRangeInBounds ==
    /\ rpc # "panicked"
    /\ rpc \in {"filled", "tracing", "resolved", "edited"} =>
           /\ ~matrix.panicked
           /\ Len(matrix.data) = (Len(search_query) + 1) * (Len(buffer) + 1)
    /\ rpc = "tracing" =>
           /\ InBounds(matrix, query_ix, buffer_ix)
           /\ 0 <= query_ix /\ query_ix <= Len(search_query)
           /\ 0 <= buffer_ix /\ buffer_ix <= best_buffer_end
           /\ best_buffer_end <= Len(buffer)
    /\ (rpc = "tracing" /\ query_ix > 0 /\ buffer_ix > 0) =>
           get(matrix, query_ix, buffer_ix).direction \in {"Up", "Left", "Diagonal"}
    /\ rpc \in {"resolved", "edited"} =>
           /\ 0 <= location.start
           /\ location.start <= location.end
           /\ location.end <= Len(buffer)

\* a range was returned for a query that shares no byte with a non-empty document
C22_Witness ==
    /\ rpc = "resolved"
    /\ buffer # <<>>
    /\ search_query # <<>>
    /\ NoCommonByte
    /\ location.start <= location.end

\* a range was returned for the empty document and a non-empty query
C22_WitnessEmptyDocument ==
    /\ rpc = "resolved"
    /\ buffer = <<>>
    /\ search_query # <<>>
    /\ location = [start |-> 0, end |-> 0]

\* a range was returned for the empty query and a non-empty document
C22_WitnessEmptyQuery ==
    /\ rpc = "resolved"
    /\ buffer # <<>>
    /\ search_query = <<>>

\* ------------------------------------------------- the registry of a session
\* A session that registers and removes tools of any implementation, under any
\* name, between and during its sends.
NextRegistry ==
    \/ \E tool \in Tools : add_tool(tool)
    \/ \E name \in RegistryNames : remove_tool(name)
    \/ NextConfigured

RegistrySpec == Init /\ [][NextRegistry]_vars

\* every entry of registry `before' other than the one under `name' is in `after'
OtherEntriesKept(before, after, name) ==
    /\ DOMAIN after \ {name} = DOMAIN before \ {name}
    /\ \A other \in DOMAIN before \ {name} : after[other] = before[other]

\* C25: the registry holds at most one tool under a name, the one registered last
\* under it: add_tool(tool) puts the tool under its name in place of whatever was
\* there; remove_tool(name) returns true exactly when the name is registered, and
\* the name is absent afterwards; both leave every other entry and the message
\* history as they were.
C25_RegistryUpdates ==
    /\ [](/\ \A name \in DOMAIN tools : tools[name].name = name
          /\ \A tool \in Tools :
                /\ tool.name \in DOMAIN Inserted(tools, tool)
                /\ Inserted(tools, tool)[tool.name] = tool
                /\ OtherEntriesKept(tools, Inserted(tools, tool), tool.name)
          /\ \A name \in RegistryNames :
                /\ remove_tool_returns(name) <=> name \in DOMAIN tools
                /\ name \notin DOMAIN Removed(tools, name).map
                /\ OtherEntriesKept(tools, Removed(tools, name).map, name))
    /\ [][/\ \A tool \in Tools :
                add_tool(tool) => (tools' = Inserted(tools, tool) /\ messages' = messages)
          /\ \A name \in RegistryNames :
                remove_tool(name) =>
                    (tools' = Removed(tools, name).map /\ messages' = messages)]_vars

\* with a message in the history, a tool is registered under each name, the one
\* under "echo" in place of the session's first
C25_Witness ==
    /\ messages # <<>>
    /\ DOMAIN tools = RegistryNames
    /\ tools["echo"] = Tool("echo", 2)
    /\ tools[OpaqueTool] = SessionTool(OpaqueTool)

\* ------------------------------------------------------- EditAgent::interpret
MaxStreamLen == 2       \* bytes of the live buffer and of an edit's old_text

\* A buffer holding some text, on which interpret() has not been called
InitInterpret ==
    /\ AgentNew
    /\ NoStream
    /\ buffer = <<>>
    /\ search_query = <<>>
    /\ edit_new_text = <<>>
    /\ matrix = <<>>
    /\ best_buffer_end = 0
    /\ query_ix = 0
    /\ buffer_ix = 0
    /\ location = <<>>
    /\ edited_text \in Texts(MaxStreamLen)
    /\ rpc = "idle"

\* lines 53-71: the snapshot of the buffer is taken and the stream is opened
interpret ==
    /\ rpc = "idle"
    /\ buffer' = edited_text
    /\ rpc' = "streaming"
    /\ parser' = EditParserNew
    /\ UNCHANGED <<agent_vars, chunks, edits, output, search_query, edit_new_text, matrix,
                   best_buffer_end, query_ix, buffer_ix, location, edited_text>>

\* lines 72-88: a chunk makes parser.push return an edit, and the closure calls
\* resolve_location(&snapshot, &edit.old_text)
ResolveNextEdit(old_text) ==
    /\ rpc \in {"streaming", "resolved"}
    /\ search_query' = old_text
    /\ edit_new_text' = <<"b">>
    /\ matrix' = <<>>
    /\ best_buffer_end' = 0
    /\ query_ix' = 0
    /\ buffer_ix' = 0
    /\ rpc' = "start"
    /\ UNCHANGED <<agent_vars, stream_vars, buffer, location, edited_text>>

\* between two items of the stream the consumer edits the live buffer
EditLiveBuffer(text) ==
    /\ rpc \in {"streaming", "resolved"}
    /\ edited_text' = text
    /\ UNCHANGED <<agent_vars, stream_vars, buffer, search_query, edit_new_text, matrix,
                   best_buffer_end, query_ix, buffer_ix, location, rpc>>

NextInterpret ==
    \/ interpret
    \/ \E old_text \in Texts(MaxStreamLen) : ResolveNextEdit(old_text)
    \/ \E text \in Texts(MaxStreamLen) : EditLiveBuffer(text)
    \/ FillMatrix
    \/ FindBestEnd
    \/ TracebackStep
    \/ ReturnRange

InterpretSpec == InitInterpret /\ [][NextInterpret]_vars

\* C26: once interpret() has taken its snapshot no step changes it, neither a
\* resolution nor an edit of the live buffer, and every edit of the call is
\* resolved against it: the matrix is filled from the snapshot and the query,
\* and the range returned lies in the snapshot and is the one the snapshot's
\* lines give, whatever the live buffer holds by then.
C26_ResolvedAgainstSnapshot ==
    /\ [](/\ rpc \in {"filled", "tracing", "resolved"} =>
                matrix = Fill(buffer, search_query)
          /\ rpc \in {"tracing", "resolved"} =>
                best_buffer_end = BestBufferEnd(matrix, Len(search_query), Len(buffer))
          /\ rpc = "resolved" =>
                /\ location = SnapToLines(buffer, buffer_ix, best_buffer_end)
                /\ location.end <= Len(buffer))
    /\ [][rpc # "idle" => buffer' = buffer]_vars

\* a later edit of the call was resolved after the live buffer had been edited:
\* the range lies in the snapshot and not in the live buffer
C26_Witness ==
    /\ rpc = "resolved"
    /\ edited_text # buffer
    /\ search_query # <<>>
    /\ location.end > Len(edited_text)
    /\ location.end <= Len(buffer)

\* C27: the registry is read-only during a turn: while the task of a turn is
\* pending no step changes the registry, and a tool use of the round is looked up
\* in the set of tools its request offered.
C27_RegistryFixedDuringTurn ==
    [][\A t \in Turns :
          /\ (Pending(t) /\ Pending(t)') => tools' = tools
          /\ (EventStep(t) /\ IsCompleteToolUse(Delivered(t))) =>
                request[t].tools = DOMAIN tools]_vars

\* the steps of a turn's own task read the registry and never change it: only
\* add_tool and remove_tool do
TurnTaskKeepsRegistry ==
    [][tools' # tools =>
          \/ \E name \in ToolNames : add_tool(SessionTool(name))
          \/ \E name \in ToolNames : remove_tool(name)]_vars

\* the costs of the bottom row of the matrix in columns first..Len(buffer), their
\* minimum, and the lowest column that holds it
BottomRowCost(col) == get(matrix, Len(search_query), col).cost
BottomRowMinimum(first) ==
    CHOOSE cost \in {BottomRowCost(col) : col \in first..Len(buffer)} :
        \A col \in first..Len(buffer) : cost <= BottomRowCost(col)
LowestMinimumColumn(first) ==
    CHOOSE col \in first..Len(buffer) :
        /\ BottomRowCost(col) = BottomRowMinimum(first)
        /\ \A other \in first..(col - 1) : BottomRowCost(other) # BottomRowMinimum(first)

\* C28: the best match end is the lowest column, among the columns 0..Len(buffer)
\* of the bottom row, whose cost is the minimum of that row.
C28_LowestMinimumOfBottomRow ==
    rpc \in {"tracing", "resolved", "edited"} =>
        best_buffer_end = LowestMinimumColumn(0)

\* what the scan of lines 150-158 does choose: the lowest column among the columns
\* 1..Len(buffer) whose cost is the minimum of these, and Len(buffer) = 0 for the
\* empty document
ScansFromColumnOne ==
    rpc \in {"tracing", "resolved", "edited"} =>
        best_buffer_end = IF buffer = <<>> THEN 0 ELSE LowestMinimumColumn(1)

\* The weighted edit distance between a query and a text: the least cost of
\* turning the query into the text by deleting query bytes, inserting text bytes,
\* keeping equal bytes and replacing a byte at the cost of a deletion and an
\* insertion.
RECURSIVE PrefixDistance(_, _, _, _)
\* the distance between the first i bytes of the query and the first j of the text
PrefixDistance(query, i, text, j) ==
    LET deletion == deletion_cost_of(query[i])
        insertion == insertion_cost_of(text[j])
        least(costs) == CHOOSE c \in costs : \A d \in costs : c <= d
    IN  IF i = 0 /\ j = 0 THEN 0
        ELSE IF i = 0 THEN PrefixDistance(query, i, text, j - 1) + insertion
        ELSE IF j = 0 THEN PrefixDistance(query, i - 1, text, j) + deletion
        ELSE least({PrefixDistance(query, i - 1, text, j) + deletion,
                    PrefixDistance(query, i, text, j - 1) + insertion,
                    PrefixDistance(query, i - 1, text, j - 1) +
                        (IF query[i] = text[j] THEN 0 ELSE deletion + insertion)})

Distance(query, text) == PrefixDistance(query, Len(query), text, Len(text))

\* the texts buffer[from + 1 .. to], for every 0 <= from <= to <= Len(buffer)
Substrings ==
    {SubSeq(buffer, from + 1, to) : from \in 0..Len(buffer), to \in 0..Len(buffer)}

\* a document and a query within the lengths explored exhaustively
WithinBounds == Len(buffer) <= MaxBufferLen /\ Len(search_query) <= MaxQueryLen

\* C29: the range [buffer_ix, best_buffer_end) the traceback ends with is a best
\* match: the weighted edit distance between the query and that part of the
\* document is the cost stored at (query_len, best_buffer_end), and no contiguous
\* part of the document is at a smaller distance from the query.
C29_TracebackIsBestMatch ==
    (rpc = "resolved" /\ WithinBounds) =>
        LET best_cost == get(matrix, Len(search_query), best_buffer_end).cost
        IN  /\ buffer_ix <= best_buffer_end
            /\ Distance(search_query, SubSeq(buffer, buffer_ix + 1, best_buffer_end))
                   = best_cost
            /\ \A text \in Substrings : best_cost <= Distance(search_query, text)

\* a range was traced back for a query that does not occur in the document: the
\* match is inexact, covers some but not all of the document, and costs less
\* than deleting the whole query
C29_Witness ==
    /\ rpc = "resolved"
    /\ WithinBounds
    /\ Occurrences(buffer, search_query) = {}
    /\ 0 < buffer_ix
    /\ buffer_ix < best_buffer_end
    /\ best_buffer_end < Len(buffer)
    /\ get(matrix, Len(search_query), best_buffer_end).cost > 0
    /\ get(matrix, Len(search_query), best_buffer_end).cost
           < get(matrix, Len(search_query), 0).cost

\* the costs the reference table charges for a query byte and a document byte
ReferenceDeletion(query_byte) == IF query_byte \in AsciiWhitespace THEN 1 ELSE 10
ReferenceInsertion(buffer_byte) == IF buffer_byte \in AsciiWhitespace THEN 1 ELSE 3

\* the sum of the deletion costs of the first r bytes of the query
RECURSIVE LeadingDeletions(_)
LeadingDeletions(r) ==
    IF r = 0 THEN 0 ELSE LeadingDeletions(r - 1) + ReferenceDeletion(search_query[r])

\* the least of three costs
Least(a, b, c) == IF a <= b /\ a <= c THEN a ELSE IF b <= c THEN b ELSE c

\* C30: once filled, the matrix is the semi-global table of the query and the
\* document: row 0 costs 0 in every column; column 0 holds, in row r, the sum of
\* the deletion costs of the first r query bytes, which grows with r; every other
\* cell holds the least of the cell above plus the deletion cost, the cell to the
\* left plus the insertion cost, and the diagonal cell plus nothing for equal
\* bytes and both costs otherwise; a deletion costs 1 for a whitespace query byte
\* and 10 otherwise, an insertion 1 for a whitespace document byte and 3 otherwise.
C30_MatrixIsSemiGlobalTable ==
    rpc \in {"filled", "tracing", "resolved", "edited"} =>
        LET cost(r, c) == get(matrix, r, c).cost
        IN  /\ \A c \in 0..Len(buffer) : cost(0, c) = 0
            /\ \A r \in 0..Len(search_query) : cost(r, 0) = LeadingDeletions(r)
            /\ \A r \in 1..Len(search_query) : cost(r - 1, 0) < cost(r, 0)
            /\ \A r \in 0..(Len(search_query) - 1) : \A c \in 0..(Len(buffer) - 1) :
                  LET del == ReferenceDeletion(search_query[r + 1])
                      ins == ReferenceInsertion(buffer[c + 1])
                  IN  cost(r + 1, c + 1) =
                          Least(cost(r, c + 1) + del,
                                cost(r + 1, c) + ins,
                                cost(r, c) +
                                    (IF search_query[r + 1] = buffer[c + 1]
                                     THEN 0 ELSE del + ins))

\* a matrix was filled for a query with a whitespace byte and an ordinary one
\* against a document with both kinds of byte
C30_Witness ==
    /\ rpc = "filled"
    /\ Len(search_query) = 2
    /\ get(matrix, 2, 0).cost = 11
    /\ \E c \in 1..Len(buffer) : buffer[c] \in AsciiWhitespace
    /\ \E c \in 1..Len(buffer) : buffer[c] \notin AsciiWhitespace
    /\ get(matrix, 2, Len(buffer)).cost > 0

\* the three candidates of the cell (r + 1, c + 1), as the filled matrix and the
\* reference costs give them, in the order Up, Left, Diagonal
Candidates(r, c) ==
    LET del == ReferenceDeletion(search_query[r + 1])
        ins == ReferenceInsertion(buffer[c + 1])
    IN  <<[direction |-> "Up", cost |-> get(matrix, r, c + 1).cost + del],
          [direction |-> "Left", cost |-> get(matrix, r + 1, c).cost + ins],
          [direction |-> "Diagonal",
           cost |-> get(matrix, r, c).cost +
                      (IF search_query[r + 1] = buffer[c + 1] THEN 0 ELSE del + ins)]>>

\* the candidates of least cost among cands, as places in cands
CheapestOf(cands) ==
    {i \in 1..3 : \A j \in 1..3 : cands[i].cost <= cands[j].cost}

Cheapest(r, c) == CheapestOf(Candidates(r, c))

\* C31: the direction stored in a cell is that of the first, in the order Up, Left,
\* Diagonal, of the candidates of least cost: Up wins a tie with Left and with
\* Diagonal, Left wins a tie with Diagonal.
C31_TiesGoUpLeftDiagonal ==
    rpc = "filled" =>
        \A r \in 0..(Len(search_query) - 1) : \A c \in 0..(Len(buffer) - 1) :
            LET cands == Candidates(r, c)
                cheapest == CheapestOf(cands)
                first == CHOOSE i \in cheapest : \A j \in cheapest : i <= j
            IN  get(matrix, r + 1, c + 1).direction = cands[first].direction

\* a filled matrix with a cell in which Up ties with Diagonal, one in which Left
\* ties with Diagonal and one in which Up ties with Left
C31_Witness ==
    /\ rpc = "filled"
    /\ \E r \in 0..(Len(search_query) - 1) : \E c \in 0..(Len(buffer) - 1) :
          Cheapest(r, c) = {1, 3} /\ get(matrix, r + 1, c + 1).direction = "Up"
    /\ \E r \in 0..(Len(search_query) - 1) : \E c \in 0..(Len(buffer) - 1) :
          Cheapest(r, c) = {2, 3} /\ get(matrix, r + 1, c + 1).direction = "Left"
    /\ \E r \in 0..(Len(search_query) - 1) : \E c \in 0..(Len(buffer) - 1) :
          {1, 2} \subseteq Cheapest(r, c) /\ get(matrix, r + 1, c + 1).direction = "Up"

\* C32: the range returned is the traced range [buffer_ix, best_buffer_end) snapped
\* to lines: its start is where the line of buffer_ix starts; its end is
\* best_buffer_end when that is at column 0 of its line, and otherwise where the
\* line of best_buffer_end ends, before its line feed; so the range returned
\* contains the traced range and begins at a line start.
C32_SnappedToLines ==
    rpc \in {"resolved", "edited"} =>
        /\ AtLineStart(buffer, location.start)
        /\ location.start <= buffer_ix
        /\ SameLine(buffer, location.start, buffer_ix)
        /\ IF AtLineStart(buffer, best_buffer_end)
           THEN location.end = best_buffer_end
           ELSE /\ best_buffer_end <= location.end
                /\ SameLine(buffer, best_buffer_end, location.end)
                /\ AtLineEnd(buffer, location.end)
        /\ buffer_ix <= best_buffer_end
        /\ best_buffer_end <= location.end

\* a range was returned whose start was moved back to its line start and whose
\* end, at column 0 of the next line, was kept
C32_Witness ==
    /\ rpc = "resolved"
    /\ location.start < buffer_ix
    /\ best_buffer_end > 0
    /\ AtLineStart(buffer, best_buffer_end)
    /\ best_buffer_end < Len(buffer)
    /\ location.end = best_buffer_end

\* a range was returned whose end was moved forward to the end of its line
C32_WitnessEndMoved ==
    /\ rpc = "resolved"
    /\ best_buffer_end < location.end
    /\ location.end < Len(buffer)

\* C33: the traceback starts at (query_len, best_buffer_end); each of its steps is
\* taken with both indices above 0 and follows the direction of the current cell,
\* Up taking 1 off the query index, Left 1 off the document index and Diagonal 1
\* off both, so that the sum of the indices, query_len + best_buffer_end at the
\* start, falls with every step and never below 0; the loop is left exactly when
\* an index is 0, and the document index then is the start of the match, at or
\* before best_buffer_end.
C33_TracebackTerminates ==
    /\ [](/\ rpc = "tracing" =>
                /\ 0 <= query_ix /\ query_ix <= Len(search_query)
                /\ 0 <= buffer_ix /\ buffer_ix <= best_buffer_end
          /\ rpc = "resolved" =>
                /\ query_ix = 0 \/ buffer_ix = 0
                /\ 0 <= buffer_ix /\ buffer_ix <= best_buffer_end
                /\ location = SnapToLines(buffer, buffer_ix, best_buffer_end))
    /\ [][/\ (rpc = "filled" /\ rpc' = "tracing") =>
                (query_ix' = Len(search_query) /\ buffer_ix' = best_buffer_end')
          /\ (rpc = "tracing" /\ rpc' = "tracing") =>
                LET direction == get(matrix, query_ix, buffer_ix).direction
                IN  /\ query_ix > 0 /\ buffer_ix > 0
                    /\ matrix' = matrix /\ best_buffer_end' = best_buffer_end
                    /\ direction \in {"Up", "Left", "Diagonal"}
                    /\ direction = "Up" =>
                          (query_ix' = query_ix - 1 /\ buffer_ix' = buffer_ix)
                    /\ direction = "Left" =>
                          (query_ix' = query_ix /\ buffer_ix' = buffer_ix - 1)
                    /\ direction = "Diagonal" =>
                          (query_ix' = query_ix - 1 /\ buffer_ix' = buffer_ix - 1)
                    /\ query_ix' + buffer_ix' < query_ix + buffer_ix
          /\ (rpc = "tracing" /\ rpc' # "tracing") =>
                /\ rpc' = "resolved"
                /\ query_ix = 0 \/ buffer_ix = 0
                /\ query_ix' = query_ix /\ buffer_ix' = buffer_ix]_vars

\* the traceback was left with the document index at 0 and query bytes not yet
\* consumed, after steps that took the document index down from best_buffer_end
C33_Witness ==
    /\ rpc = "resolved"
    /\ buffer_ix = 0
    /\ query_ix > 0
    /\ best_buffer_end > 1
    /\ query_ix < Len(search_query)

\* the ToolUse part at place p of message m of a request has its ToolResult, with
\* the same tool_use_id, in a later message of the request
Answered(msgs, m, p) ==
    \E later \in (m + 1)..Len(msgs) : \E q \in 1..Len(msgs[later].content) :
        /\ msgs[later].content[q].type = "ToolResult"
        /\ msgs[later].content[q].result.tool_use_id = msgs[m].content[p].tool_use.id

\* C34: every request a turn builds holds, for each input-complete ToolUse part of
\* its messages, a ToolResult part with the same tool_use_id in a later message.
C34_RequestsAnswerEveryToolUse ==
    [][\A t \in Turns :
          nreq'[t] # nreq[t] =>
             \A m \in 1..Len(request'[t].messages) :
                \A p \in 1..Len(request'[t].messages[m].content) :
                   LET part == request'[t].messages[m].content[p]
                   IN  (part.type = "ToolUse" /\ part.tool_use.is_input_complete)
                          => Answered(request'[t].messages, m, p)]_vars

\* within one turn that is never superseded, the requests after a join do answer
\* every tool use: the history a turn joins into ends with the round's results
JoinAnswersTheRound ==
    [][\A t \in Turns :
          (pc[t] = "awaiting" /\ pc'[t] = "requesting") =>
             /\ IsToolResultsMessage(Last(messages'))
             /\ Len(Last(messages').content) = Len(tool_uses[t])
             /\ \A i \in 1..Len(tool_uses[t]) :
                   Last(messages').content[i].result.tool_use_id
                       = tool_uses[t][i].tool_use_id]_vars

\* sequence s is the start of sequence longer
IsPrefix(s, longer) == Len(s) <= Len(longer) /\ SubSeq(longer, 1, Len(s)) = s

\* content `after' is content `before' with parts appended, the last part of
\* `before', when it is a Text, possibly extended
ContentGrown(before, after) ==
    /\ Len(before) <= Len(after)
    /\ \A p \in 1..(Len(before) - 1) : after[p] = before[p]
    /\ before # <<>> =>
          \/ after[Len(before)] = before[Len(before)]
          \/ /\ before[Len(before)].type = "Text"
             /\ after[Len(before)].type = "Text"
             /\ IsPrefix(before[Len(before)].text, after[Len(before)].text)

\* C35: the history is append-only: a step removes no message, keeps the order and
\* changes no message but the last, whose role stays and whose content only grows
\* by parts appended or by text added to its trailing Text part; and the messages
\* of a request are the whole history at that time, one for one and in order.
C35_HistoryAppendOnly ==
    [][/\ Len(messages) <= Len(messages')
       /\ \A m \in 1..(Len(messages) - 1) : messages'[m] = messages[m]
       /\ messages # <<>> =>
             /\ messages'[Len(messages)].role = Last(messages).role
             /\ ContentGrown(Last(messages).content, messages'[Len(messages)].content)
       /\ \A t \in Turns :
             nreq'[t] # nreq[t] =>
                /\ messages' = messages
                /\ Len(request'[t].messages) = Len(messages)
                /\ \A m \in 1..Len(messages) :
                      /\ request'[t].messages[m].role = messages[m].role
                      /\ request'[t].messages[m].content = messages[m].content]_vars

\* a second turn copied into its request a history of three messages, the
\* assistant message of the first turn between the two sends
C35_Witness ==
    /\ Len(messages) = 3
    /\ messages[2].role = "Assistant"
    /\ messages[2].content # <<>>
    /\ nreq[2] = 1
    /\ Len(request[2].messages) = 3
    /\ request[2].messages[2].content = messages[2].content

\* the trailing Text part of the last message was extended by a second delta
C35_WitnessTextExtended ==
    /\ messages # <<>>
    /\ Last(messages).role = "Assistant"
    /\ Last(messages).content # <<>>
    /\ Last(Last(messages).content).type = "Text"
    /\ Len(Last(Last(messages).content).text) = 2

\* C36: the task of a tool use is started by the step that handles its
\* input-complete ToolUse event, the round still streaming: it joins the round's
\* tasks at once, running if the tool is registered and its input parses, and the
\* tasks queued before it are untouched; a task completes while the round streams
\* or awaits its join, without touching the history; the round starts to await
\* only from streaming and by a step that delivers no event, and only the join,
\* taken when every task is ready, appends the results.
C36_ToolsRunWhileStreaming ==
    [][\A t \in Turns :
          /\ (EventStep(t) /\ IsCompleteToolUse(Delivered(t))) =>
                /\ pc[t] = "streaming" /\ pc'[t] = "streaming"
                /\ Len(tool_uses'[t]) = Len(tool_uses[t]) + 1
                /\ SubSeq(tool_uses'[t], 1, Len(tool_uses[t])) = tool_uses[t]
                /\ Last(tool_uses'[t]).tool_use_id = Delivered(t).tool_use.id
                /\ (/\ Delivered(t).tool_use.name \in DOMAIN tools
                    /\ Delivered(t).tool_use.input = "valid")
                      => (Last(tool_uses'[t]).run = <<>> /\ ~TaskReady(Last(tool_uses'[t])))
          /\ \A i \in 1..Len(tool_uses[t]) :
                CompletionStep(t, i) =>
                   (pc[t] \in {"streaming", "awaiting"} /\ pc'[t] = pc[t]
                    /\ messages' = messages)
          /\ (pc[t] # "awaiting" /\ pc'[t] = "awaiting") =>
                (pc[t] = "streaming" /\ received' = received /\ tool_uses'[t] = tool_uses[t])
          /\ JoinStep(t) => (JoinReady(tool_uses[t]) /\ received' = received)
          /\ (messages' # messages /\ IsToolResultsMessage(Last(messages'))
              /\ Last(messages').content # <<>> /\ pc'[t] # pc[t]) => JoinStep(t)]_vars

\* a round still streaming holds two tasks started by its events: the second has
\* completed, the first, started before the second event arrived, is still running
C36_Witness ==
    \E t \in Turns :
        /\ pc[t] = "streaming"
        /\ Len(tool_uses[t]) = 2
        /\ ~TaskReady(tool_uses[t][1])
        /\ TaskReady(tool_uses[t][2])
        /\ completion_order = <<tool_uses[t][2].tool_use_id>>

\* an event whose handling is empty: Thinking, UsageUpdate, Stop(EndTurn), Stop(ToolUse)
Benign(event) ==
    \/ event.type \in {"Thinking", "UsageUpdate"}
    \/ event.type = "Stop" /\ event.reason \in {"EndTurn", "ToolUse"}

\* a Stop is among the events the current round of turn t had received
StopReceived(t) ==
    /\ received[t] # <<>>
    /\ \E k \in 1..Len(Last(received[t])) : Last(received[t])[k].type = "Stop"

\* C37: a round leaves its streaming phase only by a step in which the event
\* source ends or fails, no event being delivered (or by being dropped by a later
\* send): an event Stop(EndTurn), Stop(ToolUse), UsageUpdate or Thinking is
\* forwarded and changes neither the history nor the tasks queued nor the phase,
\* and an event delivered after a Stop of the same stream is forwarded and applied
\* like any other.
C37_StopDoesNotEndStreaming ==
    [][\A t \in Turns :
          /\ (EventStep(t) /\ Benign(Delivered(t))) =>
                /\ messages' = messages
                /\ tool_uses' = tool_uses
                /\ pc' = pc
                /\ events_rx'[t] = Append(events_rx[t], OkItem(Delivered(t)))
                /\ ~crashed'
          /\ (pc[t] = "streaming" /\ pc'[t] # "streaming") =>
                /\ received' = received
                /\ messages' = messages \/ pc'[t] = "dropped"
                /\ \/ pc'[t] = "dropped"
                   \/ /\ pc'[t] = (IF tool_uses[t] = <<>> THEN "done" ELSE "awaiting")
                      /\ \/ events_rx'[t] = events_rx[t]
                         \/ events_rx'[t] = Append(events_rx[t], ErrItem(StreamError))
          /\ (EventStep(t) /\ StopReceived(t)) =>
                /\ events_rx'[t] = Append(events_rx[t], OkItem(Delivered(t)))
                /\ Delivered(t).type = "Text" =>
                      LET part == Last(Last(messages').content)
                          delta == Delivered(t).text
                      IN  /\ messages' # messages
                          /\ part.type = "Text"
                          /\ Len(part.text) >= Len(delta)
                          /\ SubSeq(part.text, Len(part.text) - Len(delta) + 1,
                                    Len(part.text)) = delta
                /\ IsCompleteToolUse(Delivered(t)) =>
                      /\ Last(Last(messages').content) = ToolUsePart(Delivered(t).tool_use)
                      /\ Len(tool_uses'[t]) = Len(tool_uses[t]) + 1]_vars

\* a round still streaming received Stop(EndTurn) and then a complete tool use,
\* which was forwarded, appended to the history and given a task
C37_Witness ==
    \E t \in Turns :
        /\ pc[t] = "streaming"
        /\ Len(Last(received[t])) = 2
        /\ Last(received[t])[1] = StopEvent("EndTurn")
        /\ IsCompleteToolUse(Last(received[t])[2])
        /\ Len(events_rx[t]) = 2
        /\ Len(tool_uses[t]) = 1
        /\ Last(Last(messages).content).type = "ToolUse"

\* turn t leaves the await of stream_completion with an error
OpenFailureStep(t) == pc[t] = "opening" /\ pc'[t] \notin {"opening", "streaming", "dropped"}

FirstOf(offsets) == CHOOSE o \in offsets : \A p \in offsets : o <= p

\* C39: when the query is not empty and occurs at two or more places of the
\* document, the bottom row holds cost 0 at the end of each occurrence, the scan
\* selects the earliest of these ends, and the traceback consumes the query along
\* the first occurrence: the match is [s, s + len) for the least start s.
C39_FirstExactOccurrenceSelected ==
    (/\ rpc \in {"resolved", "edited"}
     /\ search_query # <<>>
     /\ Cardinality(Occurrences(buffer, search_query)) >= 2)
    => LET s == FirstOf(Occurrences(buffer, search_query))
           e == s + Len(search_query)
       IN  /\ \A o \in Occurrences(buffer, search_query) :
                 get(matrix, Len(search_query), o + Len(search_query)).cost = 0
           /\ best_buffer_end = e
           /\ query_ix = 0
           /\ buffer_ix = s
           /\ location.start <= s
           /\ location.end >= e

\* the query occurs on two lines and the range returned ends before the second
\* occurrence starts
C39_Witness ==
    /\ rpc = "resolved"
    /\ Len(search_query) >= 2
    /\ Cardinality(Occurrences(buffer, search_query)) = 2
    /\ \E o \in Occurrences(buffer, search_query) : location.end <= o

\* two occurrences that overlap: the first is selected
C39_WitnessOverlapping ==
    /\ rpc = "resolved"
    /\ search_query # <<>>
    /\ \E o, p \in Occurrences(buffer, search_query) :
          o < p /\ p < o + Len(search_query) /\ buffer_ix = o

\* ------------------------------------------------- the stream of interpret()
MaxChunks == 2          \* chunks of the model's stream
MaxBlocks == 2          \* edit blocks one push returns

\* EditBlock { old_text, new_text }, the output of the parser
EditBlock(old_text, new_text) == [old_text |-> old_text, new_text |-> new_text]

EditBlocks == {EditBlock(<<"a">>, <<"b">>), EditBlock(<<"b", "\n">>, <<>>)}

\* what one parser.push can return
PushResults == UNION {[1..n -> EditBlocks] : n \in 0..MaxBlocks}

\* the documents interpret() is called on
StreamDocuments == {<<>>, <<"b", "a">>, <<"a", "\n", "b", "\n">>}

\* the error of a chunk of the model's stream
ChunkError == <<"completion error">>

\* the chunks of the model's stream
TextChunkItem(blocks) == [ok |-> TRUE, blocks |-> blocks]
ErrorChunkItem(error) == [ok |-> FALSE, error |-> error]

\* line 88: Ok((range, edit.new_text))
ResolvedEdit(range, new_text) == [ok |-> TRUE, range |-> range, new_text |-> new_text]

\* EditParser::push: the parser after one more chunk; the edits it returns are
\* the blocks the chunk completes
push(p) == p + 1

InitStream ==
    /\ AgentNew
    /\ NoStream
    /\ buffer = <<>>
    /\ search_query = <<>>
    /\ edit_new_text = <<>>
    /\ matrix = <<>>
    /\ best_buffer_end = 0
    /\ query_ix = 0
    /\ buffer_ix = 0
    /\ location = <<>>
    /\ edited_text \in StreamDocuments
    /\ rpc = "idle"

\* lines 72-80: the closure is called with Ok(chunk), which is pushed to the parser
TextChunk(blocks) ==
    /\ rpc = "streaming"
    /\ edits = <<>>
    /\ Len(chunks) < MaxChunks
    /\ chunks' = Append(chunks, TextChunkItem(blocks))
    /\ parser' = push(parser)
    /\ edits' = blocks
    /\ UNCHANGED <<agent_vars, resolver_vars, output>>

\* a closure that starts from a new parser after an error
ErrorChunkWithNewParser(error) ==
    /\ rpc = "streaming"
    /\ edits = <<>>
    /\ Len(chunks) < MaxChunks
    /\ chunks' = Append(chunks, ErrorChunkItem(error))
    /\ output' = Append(output, ErrItem(error))
    /\ parser' = EditParserNew
    /\ UNCHANGED <<agent_vars, resolver_vars, edits>>

\* lines 72-76, 81 and 90: the closure is called with Err(err): no edits, and the
\* error chained after them
ErrorChunk(error) ==
    /\ rpc = "streaming"
    /\ edits = <<>>
    /\ Len(chunks) < MaxChunks
    /\ chunks' = Append(chunks, ErrorChunkItem(error))
    /\ output' = Append(output, ErrItem(error))
    /\ UNCHANGED <<agent_vars, resolver_vars, parser, edits>>

\* lines 83-87: the next edit of the chunk is taken and resolve_location is called
MapNextEdit ==
    /\ rpc = "streaming"
    /\ edits # <<>>
    /\ search_query' = Head(edits).old_text
    /\ edit_new_text' = Head(edits).new_text
    /\ matrix' = <<>>
    /\ best_buffer_end' = 0
    /\ query_ix' = 0
    /\ buffer_ix' = 0
    /\ rpc' = "start"
    /\ UNCHANGED <<agent_vars, stream_vars, buffer, location, edited_text>>

\* line 88: the item of the edit is yielded
YieldEdit ==
    /\ rpc = "resolved"
    /\ edits # <<>>
    /\ output' = Append(output, ResolvedEdit(location, Head(edits).new_text))
    /\ edits' = Tail(edits)
    /\ rpc' = "streaming"
    /\ UNCHANGED <<agent_vars, chunks, parser, buffer, search_query, edit_new_text, matrix,
                   best_buffer_end, query_ix, buffer_ix, location, edited_text>>

\* line 72: the model's stream ends, and the returned stream with it
EndOfStream ==
    /\ rpc = "streaming"
    /\ edits = <<>>
    /\ rpc' = "ended"
    /\ UNCHANGED <<agent_vars, stream_vars, buffer, search_query, edit_new_text, matrix,
                   best_buffer_end, query_ix, buffer_ix, location, edited_text>>

NextStream ==
    \/ interpret
    \/ \E blocks \in PushResults : TextChunk(blocks)
    \/ ErrorChunk(ChunkError)
    \/ MapNextEdit
    \/ FillMatrix
    \/ FindBestEnd
    \/ TracebackStep
    \/ ReturnRange
    \/ YieldEdit
    \/ EndOfStream

StreamSpec == InitStream /\ [][NextStream]_vars

\* what a chunk contributes to the output, ranges left out
RECURSIVE ItemsOf(_)
ItemsOf(cs) ==
    IF cs = <<>>
    THEN <<>>
    ELSE LET chunk == Last(cs)
         IN  ItemsOf(SubSeq(cs, 1, Len(cs) - 1)) \o
             (IF chunk.ok
              THEN [i \in 1..Len(chunk.blocks) |->
                       [ok |-> TRUE, new_text |-> chunk.blocks[i].new_text]]
              ELSE <<ErrItem(chunk.error)>>)

\* an item of the output, its range left out
WithoutRange(item) ==
    IF item.ok THEN [ok |-> TRUE, new_text |-> item.new_text] ELSE item

\* C40: the items yielded are, chunk after chunk in arrival order, one Ok per
\* edit block the push of the chunk returned, in the order returned and with the
\* block's new_text, and one Err for a chunk that is an error; the range of an Ok
\* item is the one resolve_location returned for the block's old_text against the
\* snapshot; an error chunk yields its Err and nothing else, leaves the stream
\* open and the parser as it was, so that every text chunk of the call is pushed
\* to the one parser.
C40_OutputFollowsChunks ==
    /\ [](/\ Len(output) + Len(edits) = Len(ItemsOf(chunks))
          /\ \A k \in 1..Len(output) : WithoutRange(output[k]) = ItemsOf(chunks)[k]
          /\ edits # <<>> =>
                /\ Last(chunks).ok
                /\ Len(edits) <= Len(Last(chunks).blocks)
                /\ edits = SubSeq(Last(chunks).blocks,
                                  Len(Last(chunks).blocks) - Len(edits) + 1,
                                  Len(Last(chunks).blocks))
          /\ parser = Cardinality({k \in 1..Len(chunks) : chunks[k].ok}))
    /\ [][/\ output' # output =>
                /\ Len(output') = Len(output) + 1
                /\ SubSeq(output', 1, Len(output)) = output
                /\ rpc' = "streaming"
          /\ (output' # output /\ Last(output').ok) =>
                /\ chunks' = chunks
                /\ search_query = Head(edits).old_text
                /\ matrix = Fill(buffer, search_query)
                /\ best_buffer_end = BestBufferEnd(matrix, Len(search_query), Len(buffer))
                /\ location = SnapToLines(buffer, buffer_ix, best_buffer_end)
                /\ Last(output') = ResolvedEdit(location, Head(edits).new_text)
                /\ edits' = Tail(edits)
          /\ (chunks' # chunks /\ ~Last(chunks').ok) =>
                /\ output' = Append(output, ErrItem(Last(chunks').error))
                /\ edits' = <<>>
                /\ parser' = parser
          /\ (chunks' # chunks /\ Last(chunks').ok) =>
                /\ output' = output
                /\ parser' = parser + 1]_vars

\* an error chunk was followed by a text chunk completing two edit blocks: the
\* output is the Err and then the two edits in the parser's order, resolved to
\* different ranges
C40_Witness ==
    /\ rpc = "streaming"
    /\ edits = <<>>
    /\ Len(chunks) = 2
    /\ ~chunks[1].ok
    /\ chunks[2].ok
    /\ Len(chunks[2].blocks) = 2
    /\ chunks[2].blocks[1] # chunks[2].blocks[2]
    /\ Len(output) = 3
    /\ ~output[1].ok
    /\ output[2].ok /\ output[3].ok
    /\ output[2].range # output[3].range
    /\ output[2].new_text = chunks[2].blocks[1].new_text
    /\ output[3].new_text = chunks[2].blocks[2].new_text
    /\ parser = 1

=============================================================================
